---- MODULE Spec2Model ----
(***************************************************************************)
(* A model of the MCP chatbot client: the two provider connection classes  *)
(* (Server over stdio, SSEServer over an event stream), the turn loop of   *)
(* ChatSession.process_message and the session registry of api.py.         *)
(*                                                                         *)
(* Three state machines share the module.  SpecConn drives one provider    *)
(* connection (initialize / cleanup / execute_tool).  Spec drives the turn *)
(* loop of one ChatSession for one request at a time, SpecConc for two     *)
(* requests of one session id.  SpecSeq and SpecReg drive                  *)
(* get_or_create_chat_session with one and with two requests, SpecLife the *)
(* life of the application: startup, sessions, add_server and teardown.    *)
(* SpecStream drives one call of LLMClient.get_stream_response, SpecRounds *)
(* a turn loop with two tool rounds, SpecBeat the heartbeat loop of the     *)
(* earlier SSEServer, SpecBack the standalone backend of mcp_backend.py.    *)
(***************************************************************************)
EXTENDS Integers, Sequences, FiniteSets, TLC

VARIABLES
    srv,            \* the provider connection object (Server or SSEServer)
    cleanupRaised,  \* TRUE once a cleanup() call let an exception escape
    callPc,         \* position of the running execute_tool call
    attempt,        \* execute_tool: local `attempt`
    callLog,        \* execute_tool: outcomes of the call_tool attempts so far
    last_error,     \* execute_tool: local `last_error` / the propagated error
    waits,          \* execute_tool: the asyncio.sleep durations of this call
    active,         \* the HTTP chat requests that use the ChatSession
    toolsOf,        \* ChatSession.servers: the tool names each server lists
    ready,          \* ChatSession.servers: server.session is set
    messages,       \* ChatSession.messages
    owner,          \* for each message, the request that appended it (0: initialize)
    pc,             \* process_message: position of each request's turn
    llm_response,   \* process_message: local `llm_response`
    final_response, \* process_message: local `final_response`, joined
    out,            \* the fragments process_message has yielded in this turn
    frames,         \* the frames chat_endpoint.generate has sent for this turn
    hist,           \* the model requests of this turn: phase, reply (text), the
                    \* follow-up text joined so far, the transcript sent and the
                    \* number of invocations made before it
    invoked,        \* the servers whose execute_tool ran in this turn
    errored,        \* the turn ended in the except branch of process_message
    modelCalls,     \* get_stream_response calls made so far
    turns,          \* user messages taken so far
    initialized,    \* api.py: global `initialized`
    global_servers, \* api.py: global `global_servers`, the shared connection objects
    chat_sessions,  \* api.py: global `chat_sessions`: session id -> ChatSession object
    gpc,            \* get_or_create_chat_session: position of each request
    gsid,           \* get_or_create_chat_session: its session_id argument
    gobj,           \* the ChatSession object the request has constructed (0: none)
    gidx,           \* ChatSession.initialize: the next server to initialize
    gres,           \* the ChatSession object returned to the request
    greg,           \* the session id was registered when the request entered
    gconn,          \* server.initialize() calls made for the request
    objects,        \* ChatSession objects constructed so far
    inserts,        \* per session id, the assignments chat_sessions[id] = ... made
    life,           \* api.py lifespan: "running", "stopping" (in the teardown), "stopped"
    gkeys,          \* the keys of global_servers
    osrv,           \* per ChatSession object, its `servers` list
    pending,        \* lifespan teardown: the sessions still to clean up
    stream_lines,   \* get_stream_response: the lines the response delivers
    spos,           \* get_stream_response: the next line to read
    spc,            \* get_stream_response: position of the generator
    yielded,        \* get_stream_response: the fragments yielded so far
    stream_error,   \* get_stream_response: the exception that left the try body
    hb,             \* keep_alive: the SSEServer: session set, contexts on its exit stack
    hpc,            \* keep_alive: position of the loop
    beats,          \* keep_alive: iterations started
    pingFailures,   \* keep_alive: pings that raised
    reconnects,     \* keep_alive: initialize() calls made
    mcp_sessions,   \* mcp_backend.py: global `mcp_sessions`: server id -> session (0: absent)
    bpc,            \* mcp_backend.py: position of the request being served
    bid,            \* mcp_backend.py: its serverId
    bstatus,        \* mcp_backend.py: the HTTP status of the last answer (0: none yet)
    bsuccess,       \* mcp_backend.py: the `success` field of the last answer
    made            \* mcp_backend.py: sessions established so far

connVars == <<srv, cleanupRaised, callPc, attempt, callLog, last_error, waits>>

turnVars == <<active, toolsOf, ready, messages, owner, pc, llm_response,
              final_response, out, frames, hist, invoked, errored, modelCalls, turns>>

regVars == <<initialized, global_servers, chat_sessions, gpc, gsid, gobj, gidx, gres,
             greg, gconn, objects, inserts>>

lifeVars == <<life, gkeys, osrv, pending>>

streamVars == <<stream_lines, spos, spc, yielded, stream_error>>

beatVars == <<hb, hpc, beats, pingFailures, reconnects>>

backVars == <<mcp_sessions, bpc, bid, bstatus, bsuccess, made>>

vars == <<connVars, turnVars, regVars, lifeVars, streamVars, beatVars, backVars>>

------------------------------------------------------------------------------
(* Bounds *)

\* context-manager objects (transport / ClientSession) one connection may create
MaxCtx == 4

\* lines of one model stream
MaxLines == 3

\* model requests explored when a turn has several tool rounds
MaxRoundCalls == 4

\* iterations of the heartbeat loop
MaxBeats == 6

\* contexts counted on the exit stack of the heartbeat's connection; the
\* count saturates here
MaxStack == 4

\* sessions the standalone backend establishes
MaxMade == 3

\* close calls counted per context manager; the count saturates here
MaxCloses == 2

\* get_stream_response calls explored per ChatSession
MaxModelCalls == 3

\* user messages explored per ChatSession
MaxTurns == 2

\* provider connections of the ChatSession
NumServers == 2

\* context-manager objects one shared connection may create under the registry
MaxRegCtx == 6

\* ChatSession objects constructed under the registry
MaxObjects == 3

\* program constants
StdioRetries == 2
SSERetries == 3
StdioDelay == 1
SSEDelay == 2

Ctxs == 1..MaxCtx

RegCtxs == 1..MaxRegCtx

None == 0

------------------------------------------------------------------------------
(* Provider connections: main.py, classes Server and SSEServer *)

\* Server.__init__ / SSEServer.__init__
NewServerOn(kind, pool) ==
    [ kind |-> kind,
      session |-> None,
      exit_stack |-> <<>>,
      streams_context |-> None,
      session_context |-> None,
      tools |-> {},
      ctx |-> [c \in pool |-> [st |-> "unused", closes |-> 0, role |-> "none"]] ]

NewServer(kind) == NewServerOn(kind, Ctxs)

FreeCtxs(s) == {c \in DOMAIN s.ctx : s.ctx[c].st = "unused"}

FirstFree(s) == CHOOSE c \in FreeCtxs(s) : \A d \in FreeCtxs(s) : c <= d

SecondFree(s) ==
    CHOOSE c \in FreeCtxs(s) \ {FirstFree(s)} :
        \A d \in FreeCtxs(s) \ {FirstFree(s)} : c <= d

SetCtx(s, c, st) == [s EXCEPT !.ctx[c].st = st]

\* a context manager is constructed: sse_client(...) / stdio_client(...) is a
\* "transport", ClientSession(...) a "session"
Create(s, c, role) == [s EXCEPT !.ctx[c].st = "created", !.ctx[c].role = role]

\* one __aexit__ call on a context manager
CloseCtx(s, c) ==
    [s EXCEPT !.ctx[c] = [st |-> "closed",
                          closes |-> IF @.closes < MaxCloses THEN @.closes + 1
                                     ELSE MaxCloses,
                          role |-> @.role]]

RECURSIVE CloseAll(_, _)
\* AsyncExitStack.aclose: every callback is popped and called once, last first
CloseAll(s, stack) ==
    IF stack = <<>> THEN s
    ELSE CloseAll(CloseCtx(s, stack[Len(stack)]), SubSeq(stack, 1, Len(stack) - 1))

\* Server.cleanup; r: some exit callback raises
Server_cleanup(s, r) ==
    LET closed == [CloseAll(s, s.exit_stack) EXCEPT !.exit_stack = <<>>]
        raises == r /\ s.exit_stack # <<>>
    IN  [ s |-> IF raises THEN closed ELSE [closed EXCEPT !.session = None],
          raised |-> FALSE ]

\* SSEServer.cleanup; r1: closing the session context raises, r2: closing the
\* streams context raises
SSEServer_cleanup(s, r1, r2) ==
    LET a == IF s.session_context # None THEN CloseCtx(s, s.session_context) ELSE s
        raise1 == r1 /\ s.session_context # None
        b == IF s.streams_context # None THEN CloseCtx(a, s.streams_context) ELSE a
        raise2 == r2 /\ s.streams_context # None
    IN  [ s |-> IF raise1 THEN a
                ELSE IF raise2 THEN b
                ELSE [b EXCEPT !.session = None,
                               !.streams_context = None,
                               !.session_context = None],
          raised |-> FALSE ]

cleanup(s, r1, r2) ==
    IF s.kind = "stdio" THEN Server_cleanup(s, r1) ELSE SSEServer_cleanup(s, r1, r2)

InitOutcomes == {"ok", "transport_fail", "session_fail", "handshake_fail", "list_fail"}

\* SSEServer.initialize; o: where the connect sequence raises, toolset: the
\* tools the provider lists
SSEServer_initialize(s, o, toolset) ==
    LET c1 == FirstFree(s)
        c2 == SecondFree(s)
        s1 == [Create(s, c1, "transport") EXCEPT !.streams_context = c1]
        s2 == [Create(SetCtx(s1, c1, "open"), c2, "session")
                   EXCEPT !.session_context = c2]
        s3 == [SetCtx(s2, c2, "open") EXCEPT !.session = c2]
    IN  CASE o = "transport_fail" -> [s |-> s1, raised |-> TRUE]
          [] o = "session_fail" -> [s |-> s2, raised |-> TRUE]
          [] o \in {"handshake_fail", "list_fail"} -> [s |-> s3, raised |-> TRUE]
          [] OTHER -> [s |-> [s3 EXCEPT !.tools = toolset], raised |-> FALSE]

\* Server.initialize; r: an exit callback raises during the cleanup of the
\* except branch.  list_tools is not part of it, so "list_fail" succeeds.
Server_initialize(s, o, r) ==
    LET c1 == FirstFree(s)
        c2 == SecondFree(s)
        s1 == Create(s, c1, "transport")
        s2 == [Create(SetCtx(s1, c1, "open"), c2, "session")
                   EXCEPT !.exit_stack = Append(@, c1)]
        s3 == [SetCtx(s2, c2, "open") EXCEPT !.exit_stack = Append(@, c2)]
    IN  CASE o = "transport_fail" -> [s |-> Server_cleanup(s1, r).s, raised |-> TRUE]
          [] o = "session_fail" -> [s |-> Server_cleanup(s2, r).s, raised |-> TRUE]
          [] o = "handshake_fail" -> [s |-> Server_cleanup(s3, r).s, raised |-> TRUE]
          [] OTHER -> [s |-> [s3 EXCEPT !.session = c2], raised |-> FALSE]

initialize(s, o, r, toolset) ==
    IF s.kind = "stdio" THEN Server_initialize(s, o, r)
    ELSE SSEServer_initialize(s, o, toolset)

CanInitialize(s) == Cardinality(FreeCtxs(s)) >= 2

\* Server.list_tools / SSEServer.list_tools; listed: the tools the provider
\* answers with.  Server asks its session, SSEServer returns self.tools.
list_tools(s, listed) ==
    IF s.session = None THEN [raised |-> TRUE, tools |-> {}]
    ELSE [raised |-> FALSE, tools |-> IF s.kind = "stdio" THEN listed ELSE s.tools]

------------------------------------------------------------------------------
(* execute_tool: main.py 169-211 (Server) and 263-312 (SSEServer) *)

\* default of the `retries` parameter; no caller passes another value
Retries(kind) == IF kind = "stdio" THEN StdioRetries ELSE SSERetries

\* what one `await self.session.call_tool(...)` can do
CallOutcomes == {"ok", "null", "conn", "other"}

\* a None result is returned like any other
AttemptFailed_nullReturned(kind, o) == o \in {"conn", "other", "attr"}

\* the try body ends in the except branch
AttemptFailed(kind, o) ==
    \/ o \in {"conn", "other", "attr"}
    \/ kind = "sse" /\ o = "null"

\* no error counts as a connection error
IsConnectionError_never(e) == FALSE

\* isinstance(e, (ConnectionError, RuntimeError)) or "connection" in str(e).lower()
IsConnectionError(e) == e = "conn"

RECURSIVE Pow2(_)
Pow2(n) == IF n = 0 THEN 1 ELSE 2 * Pow2(n - 1)

\* every wait is the base delay
WaitTime_constant(kind, a) == IF kind = "stdio" THEN StdioDelay ELSE SSEDelay

\* the delay slept after the attempt-th failure
WaitTime(kind, a) == IF kind = "stdio" THEN StdioDelay ELSE SSEDelay * Pow2(a - 1)

\* the first error of the call is kept
Caught_first(prev, e) == IF prev = "" THEN e ELSE prev

\* `except Exception as e`: the error the except branch holds; SSEServer stores
\* it in last_error, Server re-raises it with a bare `raise`
Caught(prev, e) == e

\* `while attempt < retries`
LoopGuard_offByOne(a, retries) == a <= retries

LoopGuard(a, retries) == a < retries

\* `if attempt < retries` of the except branch
RetryAgain(a, retries) == a < retries

ConnIdle ==
    /\ cleanupRaised = FALSE
    /\ callPc = "idle"
    /\ attempt = 0
    /\ callLog = <<>>
    /\ last_error = ""
    /\ waits = <<>>

InitConn ==
    /\ srv \in {NewServer("stdio"), NewServer("sse")}
    /\ ConnIdle

\* the connection machine is not part of the run
NoConn ==
    /\ srv = NewServer("stdio")
    /\ ConnIdle

\* a caller runs initialize()
Initialize ==
    /\ CanInitialize(srv)
    /\ \E o \in InitOutcomes, r \in BOOLEAN :
           srv' = initialize(srv, o, r, {"search"}).s
    /\ UNCHANGED <<cleanupRaised, callPc, attempt, callLog, last_error, waits>>
    /\ UNCHANGED <<turnVars, regVars, lifeVars, streamVars, beatVars, backVars>>

\* a caller runs cleanup()
Cleanup ==
    /\ \E r1, r2 \in BOOLEAN :
           LET res == cleanup(srv, r1, r2)
           IN  /\ srv' = res.s
               /\ cleanupRaised' = (cleanupRaised \/ res.raised)
    /\ UNCHANGED <<callPc, attempt, callLog, last_error, waits>>
    /\ UNCHANGED <<turnVars, regVars, lifeVars, streamVars, beatVars, backVars>>

\* execute_tool up to the retry loop
ExecStart ==
    /\ callPc = "idle"
    /\ attempt' = 0
    /\ callLog' = <<>>
    /\ waits' = <<>>
    /\ IF srv.session # None
       THEN /\ callPc' = "loop"
            /\ last_error' = ""
            /\ srv' = srv
       ELSE IF srv.kind = "stdio"
       THEN /\ callPc' = "raised"
            /\ last_error' = "not_initialized"
            /\ srv' = srv
       ELSE /\ CanInitialize(srv)
            /\ \E o \in InitOutcomes :
                   LET res == SSEServer_initialize(srv, o, {"search"})
                   IN  /\ srv' = res.s
                       /\ callPc' = IF res.raised THEN "raised" ELSE "loop"
                       /\ last_error' = IF res.raised THEN "init_failed" ELSE ""
    /\ UNCHANGED cleanupRaised
    /\ UNCHANGED <<turnVars, regVars, lifeVars, streamVars, beatVars, backVars>>

\* one iteration of the retry loop: the try body and the except branch up to
\* the sleep
ExecAttempt ==
    /\ callPc = "loop"
    /\ LoopGuard(attempt, Retries(srv.kind))
    /\ \E o \in (IF srv.session = None THEN {"attr"} ELSE CallOutcomes) :
           /\ callLog' = Append(callLog, o)
           /\ IF ~AttemptFailed(srv.kind, o)
              THEN /\ callPc' = "returned"
                   /\ UNCHANGED <<attempt, last_error, waits>>
              ELSE /\ attempt' = attempt + 1
                   /\ last_error' = Caught(last_error, o)
                   /\ IF RetryAgain(attempt + 1, Retries(srv.kind))
                      THEN /\ callPc' = "sleep"
                           /\ waits' = Append(waits, WaitTime(srv.kind, attempt + 1))
                      ELSE /\ callPc' = IF srv.kind = "stdio" THEN "raised" ELSE "loop"
                           /\ waits' = waits
    /\ UNCHANGED <<srv, cleanupRaised>>
    /\ UNCHANGED <<turnVars, regVars, lifeVars, streamVars, beatVars, backVars>>

\* SSEServer.execute_tool, the loop ends without a return: raise RuntimeError
ExecExhausted ==
    /\ callPc = "loop"
    /\ ~LoopGuard(attempt, Retries(srv.kind))
    /\ callPc' = "raised"
    /\ UNCHANGED <<srv, cleanupRaised, attempt, callLog, last_error, waits>>
    /\ UNCHANGED <<turnVars, regVars, lifeVars, streamVars, beatVars, backVars>>

\* the sleep ends; SSEServer re-initializes after a connection error
ExecWake ==
    /\ callPc = "sleep"
    /\ callPc' = "loop"
    /\ IF srv.kind = "sse" /\ IsConnectionError(last_error)
       THEN \E r1, r2 \in BOOLEAN, o \in InitOutcomes :
                LET cl == SSEServer_cleanup(srv, r1, r2)
                IN  /\ CanInitialize(cl.s)
                    /\ srv' = SSEServer_initialize(cl.s, o, {"search"}).s
                    /\ cleanupRaised' = (cleanupRaised \/ cl.raised)
       ELSE UNCHANGED <<srv, cleanupRaised>>
    /\ UNCHANGED <<attempt, callLog, last_error, waits>>
    /\ UNCHANGED <<turnVars, regVars, lifeVars, streamVars, beatVars, backVars>>

\* the caller has taken the result or the exception
ExecFinish ==
    /\ callPc \in {"returned", "raised"}
    /\ callPc' = "idle"
    /\ attempt' = 0
    /\ callLog' = <<>>
    /\ last_error' = ""
    /\ waits' = <<>>
    /\ UNCHANGED <<srv, cleanupRaised>>
    /\ UNCHANGED <<turnVars, regVars, lifeVars, streamVars, beatVars, backVars>>

NextConn ==
    \/ Initialize
    \/ Cleanup
    \/ ExecStart
    \/ ExecAttempt
    \/ ExecExhausted
    \/ ExecWake
    \/ ExecFinish

------------------------------------------------------------------------------
(* Text.  A string is a sequence of tokens.  "M1" "M2" are the two halves  *)
(* of the completion marker "[TASK_COMPLETE]" (which, like the pair, has   *)
(* no proper prefix that is also a suffix), "NEXT" is the continue marker, *)
(* " " is whitespace, and a JSON document is written with the tokens       *)
(* { } [ ] " and 42 around word tokens.                                    *)

MARKER == <<"M1", "M2">>

\* a continue marker that no reply holds
CONTINUE_absent == <<"none">>

CONTINUE == <<"NEXT">>

\* the substring test never succeeds
Contains_never(s, m) == FALSE

\* `m in s` for strings
Contains(s, m) ==
    \E i \in 1..(Len(s) - Len(m) + 1) : SubSeq(s, i, i + Len(m) - 1) = m

RECURSIVE Replace(_, _)
\* s.replace(m, ""): the non-overlapping occurrences, leftmost first, one pass
Replace(s, m) ==
    IF Len(s) < Len(m) THEN s
    ELSE IF SubSeq(s, 1, Len(m)) = m THEN Replace(SubSeq(s, Len(m) + 1, Len(s)), m)
    ELSE <<s[1]>> \o Replace(Tail(s), m)

RECURSIVE LStrip(_)
LStrip(s) == IF s # <<>> /\ s[1] = " " THEN LStrip(Tail(s)) ELSE s

RECURSIVE RStrip(_)
RStrip(s) ==
    IF s # <<>> /\ s[Len(s)] = " " THEN RStrip(SubSeq(s, 1, Len(s) - 1)) ELSE s

\* s.strip()
Strip(s) == RStrip(LStrip(s))

RECURSIVE Join(_)
\* "".join(chunks)
Join(chunks) == IF chunks = <<>> THEN <<>> ELSE chunks[1] \o Join(Tail(chunks))

JsonSyntax == {"{", "}", "[", "]", "\"", "42"}

\* names a JSON object of a reply can have as keys
JsonKeys == {"tool", "arguments", "k"}

Inner(s) == SubSeq(s, 2, Len(s) - 1)

NoSyntax(s) == \A i \in 1..Len(s) : s[i] \notin JsonSyntax

\* every text decodes to a number
JsonLoads_allScalar(text) == [kind |-> "scalar", items |-> <<>>]

\* json.loads: the kind of the decoded value and its tokens; "invalid" stands
\* for JSONDecodeError
JsonLoads(text) ==
    LET s == Strip(text)
    IN  IF s = <<"42">> THEN [kind |-> "scalar", items |-> <<>>]
        ELSE IF Len(s) >= 2 /\ NoSyntax(Inner(s))
        THEN CASE s[1] = "\"" /\ s[Len(s)] = "\"" -> [kind |-> "str", items |-> Inner(s)]
               [] s[1] = "[" /\ s[Len(s)] = "]" -> [kind |-> "list", items |-> Inner(s)]
               [] s[1] = "{" /\ s[Len(s)] = "}" -> [kind |-> "dict", items |-> Inner(s)]
               [] OTHER -> [kind |-> "invalid", items |-> <<>>]
        ELSE [kind |-> "invalid", items |-> <<>>]

\* `key in value` for a decoded str (substring), list (element) or dict (key)
In(key, j) == \E i \in 1..Len(j.items) : j.items[i] = key

RECURSIVE ValueFrom(_, _)
ValueFrom(items, i) ==
    IF i > Len(items) \/ items[i] \in JsonKeys THEN <<>>
    ELSE <<items[i]>> \o ValueFrom(items, i + 1)

\* tool_call[key] of a decoded dict that has the key
Get(j, key) ==
    LET i == CHOOSE n \in 1..Len(j.items) : j.items[n] = key
    IN  ValueFrom(j.items, i + 1)

------------------------------------------------------------------------------
(* ChatSession.process_llm_response: main.py 497-532 *)

ServerIds == 1..NumServers

\* the configuration explored: create_server makes the first server a stdio
\* Server and the others SSEServers
KindOf(i) == IF i = 1 THEN "stdio" ELSE "sse"

ToolNames == {"search"}

\* What `await server.execute_tool(...)` can do: raise after its retries
\* ("raise"; "lost" when a failed re-initialize has also left session = None),
\* or return a result.  progress / total = -1: the key is absent.
Result(dict, progress, total) ==
    [err |-> "", dict |-> dict, progress |-> progress, total |-> total, text |-> <<"r">>]

Raise(how) == [err |-> how, dict |-> FALSE, progress |-> -1, total |-> -1, text |-> <<>>]

ExecOutcomes(i) ==
    {Result(FALSE, -1, -1), Result(TRUE, 1, 2), Result(TRUE, 1, 0), Result(TRUE, 1, -1),
     Raise("raise")}
    \cup (IF KindOf(i) = "sse" THEN {Raise("lost")} ELSE {})

\* the try block around execute_tool, lines 509-526
RunTool(i, o, acc) ==
    LET a == [acc EXCEPT !.invoked = Append(@, i)]
        failed == [a EXCEPT !.frags = Append(@, <<"ErrorExecuting">>),
                            !.ready[i] = IF o.err = "lost" THEN FALSE ELSE @]
    IN  IF o.err # "" THEN failed
        ELSE IF o.dict /\ o.progress >= 0
        THEN IF o.total <= 0 THEN failed   \* KeyError 'total' or ZeroDivisionError
             ELSE [a EXCEPT !.frags = @ \o << <<"Progress">>, <<"Result">> \o o.text >>,
                            !.found = TRUE]
        ELSE [a EXCEPT !.frags = Append(@, <<"Result">> \o o.text), !.found = TRUE]

\* the outcomes to choose from for server i: one only when the reply cannot
\* make the loop reach its execute_tool
Outcomes(i, text) ==
    IF \E n \in toolsOf[i] : Contains(text, <<"tool", n>>) THEN ExecOutcomes(i)
    ELSE {Raise("raise")}

RECURSIVE Scan(_, _, _, _)
\* `for server in self.servers`, lines 506-526; list_tools raises RuntimeError
\* on a server whose session is None
Scan(i, name, oc, acc) ==
    IF i > NumServers THEN acc
    ELSE IF ~acc.ready[i] THEN [acc EXCEPT !.raised = TRUE]
    ELSE IF \E n \in toolsOf[i] : name = <<n>>
    THEN Scan(i + 1, name, oc, RunTool(i, oc[i], acc))
    ELSE Scan(i + 1, name, oc, acc)

\* the notice is never given
NotFoundNotice_never(r, name) == r

\* `if not found: yield f"No server found with tool: ..."`
NotFoundNotice(r, name) ==
    IF r.raised \/ r.found THEN r
    ELSE [r EXCEPT !.frags = Append(@, <<"NoServer">> \o name)]

\* process_llm_response: the fragments it yields, whether it raises, the
\* servers it invokes
process_llm_response(text, oc, rdy) ==
    LET j == JsonLoads(text)
        pass == [frags |-> <<text>>, found |-> FALSE, invoked |-> <<>>,
                 ready |-> rdy, raised |-> FALSE]
        typeError == [pass EXCEPT !.frags = <<>>, !.raised = TRUE]
    IN  CASE j.kind = "invalid" -> pass
          [] j.kind = "scalar" -> typeError
          [] j.kind \in {"str", "list"} ->
                 IF In("tool", j) /\ In("arguments", j) THEN typeError ELSE pass
          [] OTHER ->
                 IF In("tool", j) /\ In("arguments", j)
                 THEN LET name == Get(j, "tool")
                          start == [pass EXCEPT !.frags =
                                       << <<"Executing">> \o name \o <<"With">>
                                              \o Get(j, "arguments") >>]
                          r == Scan(1, name, oc, start)
                      IN  NotFoundNotice(r, name)
                 ELSE pass

------------------------------------------------------------------------------
(* ChatSession.process_message: main.py 535-589 *)

Reqs == {1, 2}

\* the system message of ChatSession.initialize: it quotes both markers
SystemMessage == <<"sys", "M1", "M2", "NEXT">>

UserInput(r) == IF r = 1 THEN <<"u1">> ELSE <<"u2">>

Call(name) == <<"{", "tool", name, "arguments", "a", "}">>

\* replies of the model that the turn loop is explored with
Replies ==
    { <<"w">>,                                   \* plain text
      <<"w", "M1", "M2", " ">>,                  \* text ending in the marker
      <<"w", "NEXT">>,                           \* text with the continue marker
      <<"M1", "M1", "M2", "M2">>,                \* a marker inside a marker
      <<"42">>,                                  \* JSON number
      <<"\"", "w", "\"">>,                       \* JSON string
      <<"[", "tool", "arguments", "]">>,         \* JSON list
      <<"{", "tool", "search", "}">>,            \* JSON object without arguments
      Call("search"),
      Call("nope"),
      <<"{", "tool", "search", "arguments", "M1", "M2", "}">> }

\* with two concurrent requests the replies are restricted to these
FewReplies == { <<"w">>, Call("search") }

ReplyChoices == IF Cardinality(active) = 1 THEN Replies ELSE FewReplies

FollowUps == { <<"w">>, <<"w", "M1", "M2">>, Call("search") }

FollowChoices == IF Cardinality(active) = 1 THEN FollowUps ELSE { <<"w">>, <<"w", "M1", "M2">> }

\* where the stream cuts a reply: a one-token reply arrives whole (0), a
\* longer one in two chunks, cut after its first token
Cuts(reply) == IF Len(reply) > 1 THEN {1} ELSE {0}

\* the chunks a reply arrives in: whole, or cut in two at k
Chunks(reply, k) ==
    IF k = 0 THEN <<reply>>
    ELSE <<SubSeq(reply, 1, k), SubSeq(reply, k + 1, Len(reply))>>

Message(role, content) == [role |-> role, content |-> content]

\* f"data: {str(response)}\n\n", api.py 158
Frame(frag) == <<"data">> \o frag

\* "data: [DONE]\n\n"
DoneFrame == <<"data", "[DONE]">>

\* chat_endpoint.generate, api.py 151-158: a frame for every fragment that is
\* not empty
Frames(frags) ==
    LET kept == SelectSeq(frags, LAMBDA f : f # <<>>)
    IN  [k \in 1..Len(kept) |-> Frame(kept[k])]

\* the stream ends without a terminal frame
Terminal_missing(fr) == fr

\* api.py 163: the terminal frame follows the last fragment
Terminal(fr) == Append(fr, DoneFrame)

\* the marker is left in
CleanResponse_raw(text) == text

\* clean_response = text.replace("[TASK_COMPLETE]", "").strip()
CleanResponse(text) == Strip(Replace(text, MARKER))

InitTurn(reqs, configs) ==
    /\ active = reqs
    /\ toolsOf \in configs
    /\ ready = [i \in ServerIds |-> TRUE]
    /\ messages = <<Message("system", SystemMessage)>>
    /\ owner = <<0>>
    /\ pc = [r \in Reqs |-> "idle"]
    /\ llm_response = [r \in Reqs |-> <<>>]
    /\ final_response = [r \in Reqs |-> <<>>]
    /\ out = [r \in Reqs |-> <<>>]
    /\ frames = [r \in Reqs |-> <<>>]
    /\ hist = [r \in Reqs |-> <<>>]
    /\ invoked = [r \in Reqs |-> <<>>]
    /\ errored = [r \in Reqs |-> FALSE]
    /\ modelCalls = 0
    /\ turns = 0

\* the turn state of a run without turns
TurnIdle ==
    /\ toolsOf = [i \in ServerIds |-> {}]
    /\ ready = [i \in ServerIds |-> FALSE]
    /\ messages = <<>>
    /\ owner = <<>>
    /\ pc = [r \in Reqs |-> "idle"]
    /\ llm_response = [r \in Reqs |-> <<>>]
    /\ final_response = [r \in Reqs |-> <<>>]
    /\ out = [r \in Reqs |-> <<>>]
    /\ frames = [r \in Reqs |-> <<>>]
    /\ hist = [r \in Reqs |-> <<>>]
    /\ invoked = [r \in Reqs |-> <<>>]
    /\ errored = [r \in Reqs |-> FALSE]
    /\ modelCalls = 0
    /\ turns = 0

\* the turn loop is not part of the run
NoTurn ==
    /\ active = {}
    /\ TurnIdle

\* the transcript is replaced by the new message
Append2_replace(r, role, content) ==
    /\ messages' = <<Message(role, content)>>
    /\ owner' = <<r>>

\* nothing is appended to the transcript
Append2_skip(r, role, content) == UNCHANGED <<messages, owner>>

Append2(r, role, content) ==
    /\ messages' = Append(messages, Message(role, content))
    /\ owner' = Append(owner, r)

\* process_message is entered: lines 538-541
StartTurn(r) ==
    /\ pc[r] = "idle"
    /\ turns < MaxTurns
    /\ turns' = turns + 1
    /\ Append2(r, "user", UserInput(r))
    /\ pc' = [pc EXCEPT ![r] = "stream1"]
    /\ llm_response' = [llm_response EXCEPT ![r] = <<>>]
    /\ final_response' = [final_response EXCEPT ![r] = <<>>]
    /\ out' = [out EXCEPT ![r] = <<>>]
    /\ frames' = [frames EXCEPT ![r] = <<>>]
    /\ hist' = [hist EXCEPT ![r] = <<>>]
    /\ invoked' = [invoked EXCEPT ![r] = <<>>]
    /\ errored' = [errored EXCEPT ![r] = FALSE]
    /\ UNCHANGED <<active, toolsOf, ready, modelCalls>>
    /\ UNCHANGED <<connVars, regVars, lifeVars, streamVars, beatVars, backVars>>

\* the first model request of a loop iteration: lines 543-547; choices: the
\* replies explored, budget: the model requests explored
Stream1On(r, choices, budget) ==
    /\ pc[r] = "stream1"
    /\ modelCalls < budget
    /\ modelCalls' = modelCalls + 1
    /\ \E reply \in choices :
           /\ llm_response' = [llm_response EXCEPT ![r] = reply]
           /\ hist' = [hist EXCEPT ![r] = Append(@,
                          [phase |-> "initial", text |-> reply, joined |-> reply,
                           sent |-> messages, inv |-> Len(invoked[r])])]
    /\ pc' = [pc EXCEPT ![r] = "inspect"]
    /\ UNCHANGED <<active, toolsOf, ready, messages, owner, final_response, out,
                   frames, invoked, errored, turns>>
    /\ UNCHANGED <<connVars, regVars, lifeVars, streamVars, beatVars, backVars>>

Stream1(r) == Stream1On(r, ReplyChoices, MaxModelCalls)

\* lines 549-557 and 577-584, with the except branch 587-589
Inspect(r) ==
    /\ pc[r] = "inspect"
    /\ \E oc \in [ServerIds -> UNION {ExecOutcomes(i) : i \in ServerIds}] :
           /\ \A i \in ServerIds : oc[i] \in Outcomes(i, llm_response[r])
           /\ LET p == process_llm_response(llm_response[r], oc, ready)
                  reply == llm_response[r]
              IN  /\ ready' = p.ready
                  /\ invoked' = [invoked EXCEPT ![r] = @ \o p.invoked]
                  /\ IF p.raised
                     THEN /\ out' = [out EXCEPT ![r] = @ \o p.frags \o << <<"Error">> >>]
                          /\ frames' = [frames EXCEPT ![r] =
                                            @ \o Frames(p.frags \o << <<"Error">> >>)]
                          /\ errored' = [errored EXCEPT ![r] = TRUE]
                          /\ pc' = [pc EXCEPT ![r] = "done"]
                          /\ UNCHANGED <<messages, owner>>
                     ELSE /\ out' = [out EXCEPT ![r] = @ \o p.frags]
                          /\ frames' = [frames EXCEPT ![r] = @ \o Frames(p.frags)]
                          /\ errored' = errored
                          /\ IF Join(p.frags) # reply
                             THEN /\ Append2(r, "assistant", reply)
                                  /\ pc' = [pc EXCEPT ![r] = "stream2"]
                             ELSE IF Contains(reply, MARKER)
                             THEN /\ Append2(r, "assistant", CleanResponse(reply))
                                  /\ pc' = [pc EXCEPT ![r] = "done"]
                             ELSE /\ Append2(r, "assistant", reply)
                                  /\ pc' = [pc EXCEPT ![r] =
                                               IF Contains(reply, CONTINUE) THEN "stream1"
                                               ELSE "done"]
    /\ UNCHANGED <<active, toolsOf, llm_response, final_response, hist, modelCalls, turns>>
    /\ UNCHANGED <<connVars, regVars, lifeVars, streamVars, beatVars, backVars>>

\* the follow-up reply is inspected too: a tool-call payload invokes server 1
Stream2On_inspecting(r, choices, budget) ==
    /\ pc[r] = "stream2"
    /\ modelCalls < budget
    /\ modelCalls' = modelCalls + 1
    /\ \E reply \in choices : \E k \in Cuts(reply) :
           LET text == final_response[r] \o reply
           IN  /\ final_response' = [final_response EXCEPT ![r] = text]
               /\ out' = [out EXCEPT ![r] = @ \o Chunks(reply, k)]
               /\ frames' = [frames EXCEPT ![r] = @ \o Frames(Chunks(reply, k))]
               /\ hist' = [hist EXCEPT ![r] = Append(@,
                              [phase |-> "followup", text |-> reply, joined |-> text,
                               sent |-> messages, inv |-> Len(invoked[r])])]
               /\ invoked' = [invoked EXCEPT ![r] =
                                 IF JsonLoads(reply).kind = "dict" THEN Append(@, 1) ELSE @]
               /\ IF Contains(text, MARKER)
                  THEN /\ Append2(r, "assistant", CleanResponse(text))
                       /\ pc' = [pc EXCEPT ![r] = "done"]
                  ELSE /\ Append2(r, "assistant", text)
                       /\ pc' = [pc EXCEPT ![r] = "stream1"]
    /\ UNCHANGED <<active, toolsOf, ready, llm_response, errored, turns>>
    /\ UNCHANGED <<connVars, regVars, lifeVars, streamVars, beatVars, backVars>>

\* the follow-up model request: lines 559-575
Stream2On(r, choices, budget) ==
    /\ pc[r] = "stream2"
    /\ modelCalls < budget
    /\ modelCalls' = modelCalls + 1
    /\ \E reply \in choices : \E k \in Cuts(reply) :
           LET text == final_response[r] \o reply
           IN  /\ final_response' = [final_response EXCEPT ![r] = text]
               /\ out' = [out EXCEPT ![r] = @ \o Chunks(reply, k)]
               /\ frames' = [frames EXCEPT ![r] = @ \o Frames(Chunks(reply, k))]
               /\ hist' = [hist EXCEPT ![r] = Append(@,
                              [phase |-> "followup", text |-> reply, joined |-> text,
                               sent |-> messages, inv |-> Len(invoked[r])])]
               /\ IF Contains(text, MARKER)
                  THEN /\ Append2(r, "assistant", CleanResponse(text))
                       /\ pc' = [pc EXCEPT ![r] = "done"]
                  ELSE /\ Append2(r, "assistant", text)
                       /\ pc' = [pc EXCEPT ![r] = "stream1"]
    /\ UNCHANGED <<active, toolsOf, ready, llm_response, invoked, errored, turns>>
    /\ UNCHANGED <<connVars, regVars, lifeVars, streamVars, beatVars, backVars>>

Stream2(r) == Stream2On(r, FollowChoices, MaxModelCalls)

\* the generator is exhausted; chat_endpoint.generate sends [DONE]
EndTurn(r) ==
    /\ pc[r] = "done"
    /\ pc' = [pc EXCEPT ![r] = "idle"]
    /\ frames' = [frames EXCEPT ![r] = Terminal(@)]
    /\ UNCHANGED <<active, toolsOf, ready, messages, owner, llm_response,
                   final_response, out, hist, invoked, errored, modelCalls, turns>>
    /\ UNCHANGED <<connVars, regVars, lifeVars, streamVars, beatVars, backVars>>

------------------------------------------------------------------------------
(* LLMClient.get_stream_response: main.py 386-429 *)

\* the lines response.aiter_lines() can deliver:
\*   "blank"       an empty line between two frames
\*   "done"        data: [DONE]
\*   "malformed"   data: followed by text that is not JSON (a partial frame)
\*   "delta_a/_b"  data: {"choices": [{"delta": {"content": "a" / "b"}}]}
\*   "role"        data: {"choices": [{"delta": {"role": "assistant"}}]}
\*   "no_choices"  data: {"choices": []}
StreamLines == {"blank", "done", "malformed", "delta_a", "delta_b", "role", "no_choices"}

LineSeqs == UNION {[1..n -> StreamLines] : n \in 0..MaxLines}

\* chunk.strip().startswith("data: ")
StartsWithData(line) == line # "blank"

\* json_str == "[DONE]"
IsDone(line) == line = "done"

\* the exception the inner try body raises on the frame ("": none):
\* json.loads raises JSONDecodeError, data["choices"][0] raises IndexError
RaisedBy(line) ==
    CASE line = "malformed" -> "JSONDecodeError"
      [] line = "no_choices" -> "IndexError"
      [] OTHER -> ""

\* "content" in data["choices"][0]["delta"]
HasContent(line) == line \in {"delta_a", "delta_b"}

\* data["choices"][0]["delta"]["content"]
Content(line) == IF line = "delta_a" THEN "a" ELSE "b"

\* the errors of the HTTP exchange: client.stream / raise_for_status, a read
\* of aiter_lines, the exit of the response context
OpenErrors == {"ConnectError", "HTTPStatusError"}

TransportErrors == OpenErrors \cup {"ReadError", "CloseError"}

Fragment(text) == [kind |-> "content", text |-> text]

\* f"[流式响应错误: {str(e)}]"
Diagnostic(e) == [kind |-> "diagnostic", text |-> e]

\* `except json.JSONDecodeError`
InnerCatches(e) == e = "JSONDecodeError"

\* no handler around the stream
OuterCatches_none(e) == FALSE

\* `except Exception as e`
OuterCatches(e) == e \in TransportErrors \cup {"IndexError", "JSONDecodeError"}

StreamIdle ==
    /\ spos = 1
    /\ spc = "start"
    /\ yielded = <<>>
    /\ stream_error = ""

InitStream ==
    /\ stream_lines \in LineSeqs
    /\ StreamIdle

\* the stream generator is not part of the run
NoStream ==
    /\ stream_lines = <<>>
    /\ StreamIdle

\* exception e leaves the inner code of the outer try statement
StreamRaise(e) ==
    /\ stream_error' = e
    /\ IF OuterCatches(e)
       THEN /\ yielded' = Append(yielded, Diagnostic(e))
            /\ spc' = "ended"
       ELSE /\ yielded' = yielded
            /\ spc' = "raised"

\* client.stream("POST", ...) and response.raise_for_status()
StreamOpen ==
    /\ spc = "start"
    /\ \E e \in OpenErrors \cup {""} :
           IF e = "" THEN spc' = "lines" /\ UNCHANGED <<yielded, stream_error>>
           ELSE StreamRaise(e)
    /\ UNCHANGED <<stream_lines, spos>>
    /\ UNCHANGED <<connVars, turnVars, regVars, lifeVars, beatVars, backVars>>

\* one iteration of `async for chunk in response.aiter_lines()`, or a read
\* that raises
StreamLine ==
    /\ spc = "lines"
    /\ spos <= Len(stream_lines)
    /\ \E e \in {"", "ReadError"} :
           LET line == stream_lines[spos]
           IN  IF e # "" THEN StreamRaise(e) /\ spos' = spos
               ELSE /\ spos' = spos + 1
                    /\ IF ~StartsWithData(line)
                       THEN UNCHANGED <<spc, yielded, stream_error>>
                       ELSE IF IsDone(line)
                       THEN spc' = "closing" /\ UNCHANGED <<yielded, stream_error>>
                       ELSE IF RaisedBy(line) # ""
                       THEN IF InnerCatches(RaisedBy(line))
                            THEN UNCHANGED <<spc, yielded, stream_error>>
                            ELSE StreamRaise(RaisedBy(line))
                       ELSE IF HasContent(line)
                       THEN /\ yielded' = Append(yielded, Fragment(Content(line)))
                            /\ UNCHANGED <<spc, stream_error>>
                       ELSE UNCHANGED <<spc, yielded, stream_error>>
    /\ UNCHANGED stream_lines
    /\ UNCHANGED <<connVars, turnVars, regVars, lifeVars, beatVars, backVars>>

\* aiter_lines is exhausted, or the read fails at the end of the body
StreamExhausted ==
    /\ spc = "lines"
    /\ spos > Len(stream_lines)
    /\ \E e \in {"", "ReadError"} :
           IF e = "" THEN spc' = "closing" /\ UNCHANGED <<yielded, stream_error>>
           ELSE StreamRaise(e)
    /\ UNCHANGED <<stream_lines, spos>>
    /\ UNCHANGED <<connVars, turnVars, regVars, lifeVars, beatVars, backVars>>

\* the exit of `async with client.stream(...) as response`
StreamClose ==
    /\ spc = "closing"
    /\ \E e \in {"", "CloseError"} :
           IF e = "" THEN spc' = "ended" /\ UNCHANGED <<yielded, stream_error>>
           ELSE StreamRaise(e)
    /\ UNCHANGED <<stream_lines, spos>>
    /\ UNCHANGED <<connVars, turnVars, regVars, lifeVars, beatVars, backVars>>

NextStream ==
    \/ StreamOpen
    \/ StreamLine
    \/ StreamExhausted
    \/ StreamClose

------------------------------------------------------------------------------
(* SSEServer.keep_alive and the SSEServer.initialize it calls:             *)
(* "main copy 2.py" 235-291 and 341-354                                    *)

\* where one connect attempt of initialize raises ("ok": nowhere)
BeatOutcomes == {"ok", "transport_fail", "handshake_fail", "list_fail"}

\* `max_retries = 3`
ConnectRetries == 3

\* one connect attempt, lines 244-259: the contexts it enters stay on the
\* exit stack, and self.session is assigned before the tools are listed
ConnectAttempt(h, o) ==
    LET push(n) == IF h.stack + n > MaxStack THEN MaxStack ELSE h.stack + n
    IN  CASE o = "transport_fail" -> h
          [] o = "handshake_fail" -> [h EXCEPT !.stack = push(2)]
          [] OTHER -> [h EXCEPT !.stack = push(2), !.session = TRUE]

\* cleanup, lines 331-339; r: an exit callback raises
Release(h, r) ==
    IF r /\ h.stack > 0 THEN [h EXCEPT !.stack = 0]
    ELSE [h EXCEPT !.stack = 0, !.session = FALSE]

RECURSIVE Connect(_, _, _, _)
\* initialize, lines 240-291, from attempt a on; outs: the outcome of each
\* attempt.  The last failure runs cleanup and re-raises.
Connect(h, a, outs, r) ==
    LET t == ConnectAttempt(h, outs[a])
    IN  IF outs[a] = "ok" THEN [h |-> t, raised |-> FALSE]
        ELSE IF a < ConnectRetries THEN Connect(t, a + 1, outs, r)
        ELSE [h |-> Release(t, r), raised |-> TRUE]

\* no handler in the loop
BeatCatches_none(e) == FALSE

\* `except Exception as e` at 349 and `except Exception as re_init_error` at
\* 353: both take every error of a ping or of initialize
BeatCatches(e) == e \in {"ping_error", "init_error"}

InitBeat ==
    /\ hb \in {[session |-> s, stack |-> IF s THEN 2 ELSE 0] : s \in BOOLEAN}
    /\ hpc = "top"
    /\ beats = 0
    /\ pingFailures = 0
    /\ reconnects = 0

\* the heartbeat is not part of the run
NoBeat ==
    /\ hb = [session |-> FALSE, stack |-> 0]
    /\ hpc = "top"
    /\ beats = 0
    /\ pingFailures = 0
    /\ reconnects = 0

\* lines 345-347: the ping, when there is a session
BeatPing ==
    /\ hpc = "top"
    /\ beats < MaxBeats
    /\ beats' = beats + 1
    /\ IF ~hb.session THEN hpc' = "sleep" /\ UNCHANGED pingFailures
       ELSE \E ok \in BOOLEAN :
                IF ok THEN hpc' = "sleep" /\ UNCHANGED pingFailures
                ELSE /\ pingFailures' = pingFailures + 1
                     /\ hpc' = IF BeatCatches("ping_error") THEN "reconnect" ELSE "raised"
    /\ UNCHANGED <<hb, reconnects>>
    /\ UNCHANGED <<connVars, turnVars, regVars, lifeVars, streamVars, backVars>>

\* line 348: the sleep ends
BeatSleep ==
    /\ hpc = "sleep"
    /\ hpc' = "top"
    /\ UNCHANGED <<hb, beats, pingFailures, reconnects>>
    /\ UNCHANGED <<connVars, turnVars, regVars, lifeVars, streamVars, backVars>>

\* lines 351-354: initialize in the except branch
BeatReconnect ==
    /\ hpc = "reconnect"
    /\ reconnects' = reconnects + 1
    /\ \E outs \in [1..ConnectRetries -> BeatOutcomes], r \in BOOLEAN :
           LET res == Connect(hb, 1, outs, r)
           IN  /\ hb' = res.h
               /\ hpc' = IF res.raised /\ ~BeatCatches("init_error") THEN "raised"
                         ELSE "top"
    /\ UNCHANGED <<beats, pingFailures>>
    /\ UNCHANGED <<connVars, turnVars, regVars, lifeVars, streamVars, backVars>>

NextBeat ==
    \/ BeatPing
    \/ BeatSleep
    \/ BeatReconnect

------------------------------------------------------------------------------
(* The standalone backend: mcp_backend.py, connect_mcp_server 126-279 and   *)
(* disconnect_mcp_server 282-308                                            *)

BackIds == {"a", "b"}

\* what the request and the configuration file say: the serverId is missing,
\* the command is missing, the server is configured with a url, or the
\* request can be served
RequestKinds == {"no_id", "no_command", "sse_type", "stdio"}

\* where the connect of lines 215-227 raises
BackOutcomes == {"ok", "spawn_fail", "handshake_fail", "list_fail"}

\* the closure `cleanup` stored with an entry, lines 200-208: the entries
\* carry no exit stack, so it deletes the entry of its server id
StoredCleanup(m, id) == [m EXCEPT ![id] = None]

\* `del mcp_sessions[server_id]`: KeyError when the key is absent
Del(m, id) ==
    IF m[id] = None THEN [m |-> m, raised |-> TRUE]
    ELSE [m |-> [m EXCEPT ![id] = None], raised |-> FALSE]

\* lines 183-186: an existing session is closed first
CloseExisting(m, id) ==
    IF m[id] # None THEN Del(StoredCleanup(m, id), id)
    ELSE [m |-> m, raised |-> FALSE]

InitBack ==
    /\ mcp_sessions = [i \in BackIds |-> None]
    /\ bpc = "idle"
    /\ bid = "a"
    /\ bstatus = 0
    /\ bsuccess = FALSE
    /\ made = 0

NoBack == InitBack

\* connect_mcp_server up to the connect, lines 129-208
BackConnect(id, kind) ==
    /\ bpc = "idle"
    /\ bid' = id
    /\ bsuccess' = FALSE
    /\ IF kind \in {"no_id", "no_command", "sse_type"}
       THEN /\ bstatus' = 400
            /\ bpc' = "responded"
            /\ UNCHANGED mcp_sessions
       ELSE LET c == CloseExisting(mcp_sessions, id)
            IN  /\ mcp_sessions' = c.m
                /\ bstatus' = IF c.raised THEN 500 ELSE 0
                /\ bpc' = IF c.raised THEN "responded" ELSE "connecting"
    /\ UNCHANGED made
    /\ UNCHANGED <<connVars, turnVars, regVars, lifeVars, streamVars, beatVars>>

\* lines 210-271: the connect, the entry, the answer
BackEstablish ==
    /\ bpc = "connecting"
    /\ made < MaxMade
    /\ \E o \in BackOutcomes :
           IF o = "ok"
           THEN /\ made' = made + 1
                /\ mcp_sessions' = [mcp_sessions EXCEPT ![bid] = made + 1]
                /\ bstatus' = 200
                /\ bsuccess' = TRUE
           ELSE /\ mcp_sessions' = StoredCleanup(mcp_sessions, bid)
                /\ bstatus' = 500
                /\ bsuccess' = FALSE
                /\ UNCHANGED made
    /\ bpc' = "responded"
    /\ UNCHANGED bid
    /\ UNCHANGED <<connVars, turnVars, regVars, lifeVars, streamVars, beatVars>>

\* disconnect_mcp_server, lines 285-308: both answers carry status 200
BackDisconnect(id) ==
    /\ bpc = "idle"
    /\ bid' = id
    /\ bstatus' = 200
    /\ IF mcp_sessions[id] # None
       THEN /\ mcp_sessions' = StoredCleanup(mcp_sessions, id)
            /\ bsuccess' = TRUE
       ELSE /\ bsuccess' = FALSE
            /\ UNCHANGED mcp_sessions
    /\ bpc' = "responded"
    /\ UNCHANGED made
    /\ UNCHANGED <<connVars, turnVars, regVars, lifeVars, streamVars, beatVars>>

\* the client has the answer
BackAnswered ==
    /\ bpc = "responded"
    /\ bpc' = "idle"
    /\ UNCHANGED <<mcp_sessions, bid, bstatus, bsuccess, made>>
    /\ UNCHANGED <<connVars, turnVars, regVars, lifeVars, streamVars, beatVars>>

NextBack ==
    \/ \E id \in BackIds, kind \in RequestKinds : BackConnect(id, kind)
    \/ BackEstablish
    \/ \E id \in BackIds : BackDisconnect(id)
    \/ BackAnswered

------------------------------------------------------------------------------
(* The session registry: api.py 16-18, 20-39 and 100-116 *)

SessionIds == {"s1", "s2"}

\* where a server.initialize() of ChatSession.initialize is explored to raise
RegInitOutcomes == {"ok", "handshake_fail"}

\* lifespan, lines 26-34: initialize_system has connected every configured
\* server once and the servers are stored in global_servers
InitReg(reqs, configured) ==
    /\ active = reqs
    /\ initialized = TRUE
    /\ global_servers = [i \in ServerIds |->
           IF i \in configured
           THEN initialize(NewServerOn(KindOf(i), RegCtxs), "ok", FALSE, ToolNames).s
           ELSE NewServerOn(KindOf(i), RegCtxs)]
    /\ life = "running"
    /\ gkeys = configured
    /\ osrv = [o \in 1..MaxObjects |-> {}]
    /\ pending = {}
    /\ chat_sessions = [s \in SessionIds |-> None]
    /\ gpc = [q \in Reqs |-> "idle"]
    /\ gsid = [q \in Reqs |-> "s1"]
    /\ gobj = [q \in Reqs |-> None]
    /\ gidx = [q \in Reqs |-> 1]
    /\ gres = [q \in Reqs |-> None]
    /\ greg = [q \in Reqs |-> FALSE]
    /\ gconn = [q \in Reqs |-> 0]
    /\ objects = 0
    /\ inserts = [s \in SessionIds |-> 0]

\* the registry is not part of the run
NoReg ==
    /\ initialized = FALSE
    /\ global_servers = [i \in ServerIds |-> NewServer(KindOf(i))]
    /\ life = "running"
    /\ gkeys = {}
    /\ osrv = [o \in 1..MaxObjects |-> {}]
    /\ pending = {}
    /\ chat_sessions = [s \in SessionIds |-> None]
    /\ gpc = [q \in Reqs |-> "idle"]
    /\ gsid = [q \in Reqs |-> "s1"]
    /\ gobj = [q \in Reqs |-> None]
    /\ gidx = [q \in Reqs |-> 1]
    /\ gres = [q \in Reqs |-> None]
    /\ greg = [q \in Reqs |-> FALSE]
    /\ gconn = [q \in Reqs |-> 0]
    /\ objects = 0
    /\ inserts = [s \in SessionIds |-> 0]

\* the membership test is always negative
IsRegistered_never(sid) == FALSE

\* `session_id in chat_sessions`
IsRegistered(sid) == chat_sessions[sid] # None

\* the teardown stops at the first server whose release fails
cleanup_servers_stopAtFailure(gs, servers, r1, r2) ==
    [i \in ServerIds |->
        IF i \in servers /\ ~\E j \in servers : j < i /\ (r1[j] \/ r2[j])
        THEN cleanup(gs[i], r1[i], r2[i]).s ELSE gs[i]]

\* no release is run
cleanup_servers_none(gs, servers, r1, r2) == gs

\* ChatSession.cleanup_servers: cleanup() of every server of the session
\* (servers) is run to its end; r1, r2: which closes raise, per server
cleanup_servers(gs, servers, r1, r2) ==
    [i \in ServerIds |-> IF i \in servers THEN cleanup(gs[i], r1[i], r2[i]).s ELSE gs[i]]

\* `for server in self.servers`: the server after the i-th, NumServers + 1
\* at the end of the list
NextIn(servers, i) ==
    IF \E j \in servers : j > i
    THEN CHOOSE j \in servers : j > i /\ \A k \in servers : k > i => j <= k
    ELSE NumServers + 1

\* get_or_create_chat_session up to its first await: lines 105-112
GocEnter(q, sid) ==
    /\ gpc[q] = "idle"
    /\ life = "running"
    /\ gsid' = [gsid EXCEPT ![q] = sid]
    /\ greg' = [greg EXCEPT ![q] = chat_sessions[sid] # None]
    /\ IF IsRegistered(sid)
       THEN /\ gres' = [gres EXCEPT ![q] = chat_sessions[sid]]
            /\ gpc' = [gpc EXCEPT ![q] = "returned"]
            /\ UNCHANGED <<gobj, gidx, objects, osrv>>
       ELSE IF ~initialized
       THEN /\ gpc' = [gpc EXCEPT ![q] = "raised"]
            /\ UNCHANGED <<gres, gobj, gidx, objects, osrv>>
       ELSE /\ objects < MaxObjects
            /\ objects' = objects + 1
            /\ gobj' = [gobj EXCEPT ![q] = objects + 1]
            /\ osrv' = [osrv EXCEPT ![objects + 1] = gkeys]
            /\ gidx' = [gidx EXCEPT ![q] = NextIn(gkeys, 0)]
            /\ gpc' = [gpc EXCEPT ![q] = "init"]
            /\ UNCHANGED gres
    /\ UNCHANGED <<initialized, global_servers, chat_sessions, gconn, inserts>>
    /\ UNCHANGED <<life, gkeys, pending>>
    /\ UNCHANGED <<connVars, turnVars, streamVars, beatVars, backVars>>

\* ChatSession.initialize, one iteration of the loop of lines 445-451
GocInitServer(q) ==
    /\ gpc[q] = "init"
    /\ gidx[q] <= NumServers
    /\ CanInitialize(global_servers[gidx[q]])
    /\ gconn' = [gconn EXCEPT ![q] = @ + 1]
    /\ \E o \in RegInitOutcomes, r \in BOOLEAN, r1, r2 \in [ServerIds -> BOOLEAN] :
           LET res == initialize(global_servers[gidx[q]], o, r, ToolNames)
               gs == [global_servers EXCEPT ![gidx[q]] = res.s]
           IN  IF res.raised
               THEN /\ global_servers' = cleanup_servers(gs, osrv[gobj[q]], r1, r2)
                    /\ gpc' = [gpc EXCEPT ![q] = "raised"]
                    /\ gidx' = gidx
               ELSE /\ global_servers' = gs
                    /\ gpc' = gpc
                    /\ gidx' = [gidx EXCEPT ![q] = NextIn(osrv[gobj[q]], @)]
    /\ UNCHANGED <<initialized, chat_sessions, gsid, gobj, gres, greg, objects, inserts>>
    /\ UNCHANGED <<connVars, turnVars, lifeVars, streamVars, beatVars, backVars>>

\* ChatSession.initialize lines 454-488 (list_tools raises on a server whose
\* session is None), then api.py lines 114-116
GocRegister(q) ==
    /\ gpc[q] = "init"
    /\ gidx[q] > NumServers
    /\ IF \E i \in osrv[gobj[q]] : global_servers[i].session = None
       THEN /\ gpc' = [gpc EXCEPT ![q] = "raised"]
            /\ UNCHANGED <<chat_sessions, gres, inserts>>
       ELSE /\ chat_sessions' = [chat_sessions EXCEPT ![gsid[q]] = gobj[q]]
            /\ inserts' = [inserts EXCEPT ![gsid[q]] = @ + 1]
            /\ gres' = [gres EXCEPT ![q] = gobj[q]]
            /\ gpc' = [gpc EXCEPT ![q] = "returned"]
    /\ UNCHANGED <<initialized, global_servers, gsid, gobj, gidx, greg, gconn, objects>>
    /\ UNCHANGED <<connVars, turnVars, lifeVars, streamVars, beatVars, backVars>>

\* the request has its ChatSession or its error
GocDone(q) ==
    /\ gpc[q] \in {"returned", "raised"}
    /\ gpc' = [gpc EXCEPT ![q] = "idle"]
    /\ gobj' = [gobj EXCEPT ![q] = None]
    /\ gidx' = [gidx EXCEPT ![q] = 1]
    /\ gres' = [gres EXCEPT ![q] = None]
    /\ greg' = [greg EXCEPT ![q] = FALSE]
    /\ gconn' = [gconn EXCEPT ![q] = 0]
    /\ UNCHANGED <<initialized, global_servers, chat_sessions, gsid, objects, inserts>>
    /\ UNCHANGED <<connVars, turnVars, lifeVars, streamVars, beatVars, backVars>>

NextReg ==
    \/ \E q \in active, sid \in SessionIds : GocEnter(q, sid)
    \/ \E q \in active : GocInitServer(q)
    \/ \E q \in active : GocRegister(q)
    \/ \E q \in active : GocDone(q)

\* add_server, api.py 191-223: a server that is not in global_servers is
\* created, connected and stored; a failure is answered with an error and the
\* new object is dropped
AddServer(i) ==
    /\ life = "running"
    /\ i \notin gkeys
    /\ \E o \in RegInitOutcomes, r \in BOOLEAN :
           LET res == initialize(NewServerOn(KindOf(i), RegCtxs), o, r, ToolNames)
           IN  IF res.raised
               THEN UNCHANGED <<global_servers, gkeys>>
               ELSE /\ global_servers' = [global_servers EXCEPT ![i] = res.s]
                    /\ gkeys' = gkeys \cup {i}
    /\ UNCHANGED <<initialized, chat_sessions, gpc, gsid, gobj, gidx, gres, greg, gconn,
                   objects, inserts, life, osrv, pending>>
    /\ UNCHANGED <<connVars, turnVars, streamVars, beatVars, backVars>>

\* lifespan after the yield, line 46: the teardown starts over the sessions
\* registered now, once no request is in get_or_create_chat_session
ShutdownStart ==
    /\ life = "running"
    /\ \A q \in Reqs : gpc[q] = "idle"
    /\ life' = "stopping"
    /\ pending' = {s \in SessionIds : chat_sessions[s] # None}
    /\ UNCHANGED <<regVars, gkeys, osrv>>
    /\ UNCHANGED <<connVars, turnVars, streamVars, beatVars, backVars>>

\* line 47: `await session.cleanup_servers()` for one session
ShutdownSession(sid) ==
    /\ life = "stopping"
    /\ sid \in pending
    /\ pending' = pending \ {sid}
    /\ \E r1, r2 \in [ServerIds -> BOOLEAN] :
           global_servers' = cleanup_servers(global_servers, osrv[chat_sessions[sid]], r1, r2)
    /\ UNCHANGED <<initialized, chat_sessions, gpc, gsid, gobj, gidx, gres, greg, gconn,
                   objects, inserts, life, gkeys, osrv>>
    /\ UNCHANGED <<connVars, turnVars, streamVars, beatVars, backVars>>

\* lines 50-53: both maps are cleared
ShutdownEnd ==
    /\ life = "stopping"
    /\ pending = {}
    /\ life' = "stopped"
    /\ chat_sessions' = [s \in SessionIds |-> None]
    /\ gkeys' = {}
    /\ UNCHANGED <<initialized, global_servers, gpc, gsid, gobj, gidx, gres, greg, gconn,
                   objects, inserts, osrv, pending>>
    /\ UNCHANGED <<connVars, turnVars, streamVars, beatVars, backVars>>

NextLife ==
    \/ \E q \in active, sid \in SessionIds : GocEnter(q, sid)
    \/ \E q \in active : GocInitServer(q)
    \/ \E q \in active : GocRegister(q)
    \/ \E q \in active : GocDone(q)
    \/ \E i \in ServerIds : AddServer(i)
    \/ ShutdownStart
    \/ \E sid \in SessionIds : ShutdownSession(sid)
    \/ ShutdownEnd

\* the servers of servers_config.json at startup; the others come by add_server
Configured == {1}

\* the life of the application: startup, sessions, add_server, teardown
InitLife == InitReg({1}, Configured) /\ NoConn /\ TurnIdle /\ NoStream /\ NoBeat /\ NoBack

SpecLife == InitLife /\ [][NextLife]_vars

\* get_or_create_chat_session called by one request at a time
InitSeq == InitReg({1}, ServerIds) /\ NoConn /\ TurnIdle /\ NoStream /\ NoBeat /\ NoBack

SpecSeq == InitSeq /\ [][NextReg]_vars

\* get_or_create_chat_session called by two concurrent requests
InitRace == InitReg({1, 2}, ServerIds) /\ NoConn /\ TurnIdle /\ NoStream /\ NoBeat /\ NoBack

SpecReg == InitRace /\ [][NextReg]_vars

NextTurn ==
    \/ \E r \in active : StartTurn(r)
    \/ \E r \in active : Stream1(r)
    \/ \E r \in active : Inspect(r)
    \/ \E r \in active : Stream2(r)
    \/ \E r \in active : EndTurn(r)

\* one ChatSession serving one request at a time
Init ==
    /\ InitTurn({1}, [ServerIds -> SUBSET ToolNames])
    /\ NoConn
    /\ NoReg
    /\ NoStream /\ NoBeat /\ NoBack

Spec == Init /\ [][NextTurn]_vars

\* one provider connection
InitOne == InitConn /\ NoTurn /\ NoReg /\ NoStream /\ NoBeat /\ NoBack

SpecConn == InitOne /\ [][NextConn]_vars

\* one ChatSession serving two requests of the same session id
InitConc ==
    /\ InitTurn({1, 2}, {[i \in ServerIds |-> IF i = 1 THEN ToolNames ELSE {}]})
    /\ NoConn
    /\ NoReg
    /\ NoStream /\ NoBeat /\ NoBack

SpecConc == InitConc /\ [][NextTurn]_vars

Round1(r) == Stream1On(r, FewReplies, MaxRoundCalls)

Round2(r) == Stream2On(r, FollowUps, MaxRoundCalls)

NextRounds ==
    \/ \E r \in active : StartTurn(r)
    \/ \E r \in active : Round1(r)
    \/ \E r \in active : Inspect(r)
    \/ \E r \in active : Round2(r)
    \/ \E r \in active : EndTurn(r)

\* one ChatSession serving one request whose turns may have two tool rounds
InitRounds ==
    /\ InitTurn({1}, {[i \in ServerIds |-> IF i = 1 THEN ToolNames ELSE {}]})
    /\ NoConn
    /\ NoReg
    /\ NoStream /\ NoBeat /\ NoBack

SpecRounds == InitRounds /\ [][NextRounds]_vars

\* one get_stream_response call
InitGen == InitStream /\ NoConn /\ NoTurn /\ NoReg /\ NoBeat /\ NoBack

SpecStream == InitGen /\ [][NextStream]_vars

\* one keep_alive task
InitHeart == InitBeat /\ NoConn /\ NoTurn /\ NoReg /\ NoStream /\ NoBack

SpecBeat == InitHeart /\ [][NextBeat]_vars

\* the standalone backend serving one request at a time
InitBackend == InitBack /\ NoConn /\ NoTurn /\ NoReg /\ NoStream /\ NoBeat

SpecBack == InitBackend /\ [][NextBack]_vars

------------------------------------------------------------------------------
(* Claims about provider connections, checked under SpecConn *)

\* C1: cleanup never raises to its caller and no context manager (transport
\* or client session) of a connection is ever closed more than once, whatever
\* the order of initialize and cleanup calls.
C1_ReleaseNeverDoubleCloses ==
    /\ ~cleanupRaised
    /\ \A c \in Ctxs : srv.ctx[c].closes <= 1

AllFailedBefore(log, n) == \A i \in 1..n : AttemptFailed(srv.kind, log[i])

\* C2: one execute_tool call makes at most `retries` attempts (2 for Server,
\* 3 for SSEServer); every attempt but the last one failed, so an attempt is
\* made only after the one before it failed and none follows a success; a
\* call that raises out of the retry loop has made exactly `retries` attempts,
\* all failed; a call that returns made its last attempt succeed.
C2_AttemptsBounded ==
    /\ Len(callLog) <= Retries(srv.kind)
    /\ AllFailedBefore(callLog, Len(callLog) - 1)
    /\ (callPc = "raised" /\ last_error \notin {"not_initialized", "init_failed"})
           => /\ Len(callLog) = Retries(srv.kind)
              /\ AllFailedBefore(callLog, Len(callLog))
    /\ callPc = "returned"
           => /\ callLog # <<>>
              /\ ~AttemptFailed(srv.kind, callLog[Len(callLog)])

\* C2 witness: an SSEServer call that has failed all three attempts
C2_Witness ==
    /\ callPc = "raised"
    /\ srv.kind = "sse"
    /\ Len(callLog) = SSERetries
    /\ AllFailedBefore(callLog, SSERetries)

------------------------------------------------------------------------------
(* Claims about the turn loop, checked under Spec *)

Last(s) == s[Len(s)]

\* a JSON object with the keys `tool` and `arguments`
IsToolCallPayload(text) ==
    LET j == JsonLoads(text)
    IN  j.kind = "dict" /\ In("tool", j) /\ In("arguments", j)

RequestedTool(text) == Get(JsonLoads(text), "tool")

\* a tool-call payload whose tool no server of the session lists
Unresolved(text) ==
    /\ IsToolCallPayload(text)
    /\ \A i \in ServerIds : \A n \in toolsOf[i] : RequestedTool(text) # <<n>>

\* the i-th model request of r's turn has been answered and dealt with
Handled(r, i) == i < Len(hist[r]) \/ (i = Len(hist[r]) /\ pc[r] # "inspect")

\* C3: a reply of the inspection step that is no well-formed tool-call
\* payload (invalid JSON, JSON that is no object, an object without `tool`
\* or `arguments`) is appended as an assistant message (the text, or the text
\* cleaned of the marker), no server is invoked for it and the turn does not
\* end in the error branch.
C3_MalformedReplyIsFinalAnswer ==
    \A r \in active : \A i \in 1..Len(hist[r]) :
        LET e == hist[r][i]
        IN  (i = Len(hist[r]) /\ Handled(r, i) /\ e.phase = "initial"
                /\ ~IsToolCallPayload(e.text))
            => /\ ~errored[r]
               /\ Len(invoked[r]) = e.inv
               /\ Last(messages).role = "assistant"
               /\ Last(messages).content \in {e.text, Strip(Replace(e.text, MARKER))}

C5_FollowUpCarriesToolResult ==
    \A r \in active : \A i \in 2..Len(hist[r]) :
        LET s == hist[r][i].sent
        IN  hist[r][i].phase = "followup"
            => /\ Len(s) >= 2
               /\ s[Len(s) - 1] = Message("assistant", hist[r][i - 1].text)
               /\ s[Len(s)].role = "system"

C7_NoMarkerInFragments ==
    \A r \in active : \A k \in 1..Len(out[r]) : ~Contains(out[r][k], MARKER)


------------------------------------------------------------------------------
(* Claims about the session registry *)

\* C8: called by one request at a time, a get_or_create for a session id that
\* is registered returns the registered orchestrator, constructs no
\* orchestrator and connects to no provider.
C8_SequentialGetOrCreateIdempotent ==
    \A q \in active :
        (gpc[q] # "idle" /\ greg[q]) =>
            /\ gpc[q] = "returned"
            /\ gres[q] = chat_sessions[gsid[q]]
            /\ gres[q] # None
            /\ gobj[q] = None
            /\ gconn[q] = 0

\* C8: a second call for a session id that a first call registered has returned
C8_Witness ==
    \E q \in active :
        /\ gpc[q] = "returned"
        /\ greg[q]
        /\ inserts[gsid[q]] = 1
        /\ objects >= 1

\* C9: two interleaved get_or_create requests for one unregistered session id
\* never both construct an orchestrator, and the id is registered at most once.
C9_AtMostOneConstruction ==
    \A s \in SessionIds :
        /\ Cardinality({q \in active : gpc[q] = "init" /\ gsid[q] = s}) <= 1
        /\ inserts[s] <= 1

\* C10: at most one turn of an orchestrator is in progress: a second user
\* message is not processed while the first turn is suspended.
C10_TurnsStrictlySequential ==
    Cardinality({r \in active : pc[r] \notin {"idle", "done"}}) <= 1

------------------------------------------------------------------------------
(* Claims about transports and teardown *)

\* the transports of connection s that are entered and not closed
LiveTransports(s) ==
    {c \in DOMAIN s.ctx : s.ctx[c].role = "transport" /\ s.ctx[c].st = "open"}

\* the connection object holds nothing: never connected, or a release has
\* run to its end
Released(s) ==
    /\ s.session = None
    /\ s.exit_stack = <<>>
    /\ s.streams_context = None
    /\ s.session_context = None

\* C11: a provider connection holds at most one live transport, and after a
\* completed release every transport it ever opened is closed.
C11_NoTransportLeak ==
    /\ Cardinality(LiveTransports(srv)) <= 1
    /\ Released(srv) => LiveTransports(srv) = {}

\* C12: after the teardown of the application no connection object that was
\* stored in global_servers holds an open transport or session, and both
\* chat_sessions and global_servers are empty.
C12_TeardownReleasesAll ==
    life = "stopped"
        => /\ \A i \in ServerIds : \A c \in RegCtxs : global_servers[i].ctx[c].st # "open"
           /\ \A s \in SessionIds : chat_sessions[s] = None
           /\ gkeys = {}

\* cleanup() has run on connection s and left t: the exit stack of a Server is
\* unwound, the first context an SSEServer holds is closed
ReleaseAttempted(s, t) ==
    IF s.kind = "stdio"
    THEN /\ t.exit_stack = <<>>
         /\ \A k \in 1..Len(s.exit_stack) : t.ctx[s.exit_stack[k]].st = "closed"
    ELSE IF s.session_context # None THEN t.ctx[s.session_context].st = "closed"
    ELSE s.streams_context # None => t.ctx[s.streams_context].st = "closed"

\* C13: a cleanup_servers pass (in the teardown of the application, or after
\* a failed server.initialize of ChatSession.initialize) attempts the release
\* of every connection of the session, whichever releases fail, and the
\* teardown goes on to the next session.
C13_TeardownReleasesEveryConnection ==
    [][ /\ \A sid \in SessionIds :
              ShutdownSession(sid)
                  => /\ \A i \in osrv[chat_sessions[sid]] :
                            ReleaseAttempted(global_servers[i], global_servers'[i])
                     /\ life' = "stopping"
                     /\ sid \notin pending'
        /\ \A q \in active :
              (gpc[q] = "init" /\ gpc'[q] = "raised" /\ gidx[q] <= NumServers)
                  => \A i \in osrv[gobj[q]] \ {gidx[q]} :
                         ReleaseAttempted(global_servers[i], global_servers'[i]) ]_vars

\* C13 witness: in the teardown the release of the Server failed (its session
\* is still set, its exit stack unwound) and the SSEServer after it is released
C13_Witness ==
    /\ life = "stopping"
    /\ global_servers[1].session # None
    /\ global_servers[1].exit_stack = <<>>
    /\ global_servers[2].session = None
    /\ \E c \in RegCtxs : global_servers[2].ctx[c].st = "closed"

------------------------------------------------------------------------------
(* Scenarios *)

\* an SSEServer call whose first attempt failed with a connection error and
\* whose second attempt succeeded
SecondAttemptSucceeded ==
    /\ srv.kind = "sse"
    /\ Len(callLog) >= 2
    /\ callLog[1] = "conn"
    /\ callLog[2] = "ok"

\* C14: when attempt 1 of an SSEServer call fails with a connection error,
\* the step from the sleep to attempt 2 closes the session context the
\* connection held and makes a new connect (a new transport context); and
\* when attempt 2 then succeeds the call returns after these two attempts
\* without raising.
C14_ReconnectThenSucceed ==
    [][ /\ (srv.kind = "sse" /\ callPc = "sleep" /\ callPc' = "loop"
               /\ callLog = <<"conn">>)
              => /\ srv.session_context # None
                     => srv'.ctx[srv.session_context].st = "closed"
                 /\ srv'.streams_context # None
                 /\ srv.ctx[srv'.streams_context].st = "unused"
        /\ (SecondAttemptSucceeded
              => callPc = "returned" /\ Len(callLog) = 2 /\ attempt = 1)' ]_vars

\* C14 witness: the call has returned the result of attempt 2
C14_Witness ==
    /\ SecondAttemptSucceeded
    /\ callPc = "returned"
    /\ waits = <<SSEDelay>>

\* the text holds the completion marker
HasMarker(text) == \E i \in 1..(Len(text) - 1) : text[i] = "M1" /\ text[i + 1] = "M2"

\* the servers of the session that list the tool a payload asks for
Listing(text) == {i \in ServerIds : \E n \in toolsOf[i] : RequestedTool(text) = <<n>>}

\* the turn of r began with a tool call for a tool that one server lists and
\* the follow-up reply to it holds the completion marker
ScenarioB(r) ==
    /\ Len(hist[r]) >= 2
    /\ hist[r][1].phase = "initial"
    /\ IsToolCallPayload(hist[r][1].text)
    /\ Cardinality(Listing(hist[r][1].text)) = 1
    /\ hist[r][2].phase = "followup"
    /\ HasMarker(hist[r][2].text)

\* C15: in scenario B (the tool is listed by one server) the tool is invoked
\* exactly once, the follow-up request is the only one, the turn has ended
\* without error and the last transcript message is the assistant message with
\* the follow-up text, the marker deleted and the whitespace stripped.
C15_ScenarioB ==
    \A r \in active :
        ScenarioB(r)
            => /\ Len(hist[r]) = 2
               /\ pc[r] \in {"done", "idle"}
               /\ ~errored[r]
               /\ invoked[r] \in {<<i>> : i \in Listing(hist[r][1].text)}
               /\ Last(messages) =
                      Message("assistant", Strip(Replace(hist[r][2].text, MARKER)))
               /\ ~HasMarker(Last(messages).content)

\* C15 witness: scenario B has run to its end
C15_Witness ==
    \E r \in active :
        /\ ScenarioB(r)
        /\ pc[r] = "done"
        /\ Len(invoked[r]) = 1
        /\ Last(messages) = Message("assistant", <<"w">>)

\* plain text: no JSON syntax, no completion marker, no continue marker
Plain(text) ==
    /\ text # <<>>
    /\ \A i \in 1..Len(text) : text[i] \notin JsonSyntax \cup {"M1", "M2", "NEXT"}

\* the first turn of a session without tools got a plain-text reply, and the
\* reply has been dealt with
ScenarioA(r) ==
    /\ \A i \in ServerIds : toolsOf[i] = {}
    /\ turns = 1
    /\ hist[r] # <<>>
    /\ Plain(hist[r][1].text)
    /\ Handled(r, 1)

\* C16: in scenario A the fragments yielded concatenate to the model's text,
\* one model request was made, no server was invoked and the turn has ended
\* with the transcript [system, user, assistant(text)].
C16_ScenarioA ==
    \A r \in active :
        ScenarioA(r)
            => /\ Join(out[r]) = hist[r][1].text
               /\ Len(hist[r]) = 1
               /\ modelCalls = 1
               /\ invoked[r] = <<>>
               /\ ~errored[r]
               /\ pc[r] \in {"done", "idle"}
               /\ messages = << Message("system", SystemMessage),
                                Message("user", UserInput(r)),
                                Message("assistant", hist[r][1].text) >>

\* C16 witness: scenario A has run to its end
C16_Witness ==
    \E r \in active :
        /\ ScenarioA(r)
        /\ pc[r] = "done"
        /\ out[r] = << <<"w">> >>

------------------------------------------------------------------------------
(* Claims about tool resolution and termination *)

\* the servers invoked for the k-th model reply of r's turn
InvokedFor(r, k) ==
    SubSeq(invoked[r], hist[r][k].inv + 1,
           IF k < Len(hist[r]) THEN hist[r][k + 1].inv ELSE Len(invoked[r]))

\* the first server, in the order of ChatSession.servers, that lists the tool
FirstListing(text) == CHOOSE i \in Listing(text) : \A j \in Listing(text) : i <= j

\* C17: a tool call whose tool is listed by one or more servers is invoked on
\* exactly one server, the first of them in the order of the server list.
C17_FirstMatchOnly ==
    \A r \in active : \A k \in 1..Len(hist[r]) :
        LET e == hist[r][k]
        IN  (e.phase = "initial" /\ IsToolCallPayload(e.text) /\ Handled(r, k)
                /\ Listing(e.text) # {} /\ ~(k = Len(hist[r]) /\ errored[r]))
            => InvokedFor(r, k) = <<FirstListing(e.text)>>

\* an invocation made for the first reply of r's turn has failed after its
\* retries: its error fragment comes before any fragment of a later reply
ToolFailed(r) ==
    \E k \in 2..Len(out[r]) :
        /\ out[r][k] = <<"ErrorExecuting">>
        /\ out[r][1][1] = "Executing"
        /\ \A j \in 2..(k - 1) : out[r][j][1] \in {"Progress", "Result", "ErrorExecuting"}

\* C18: when a tool invocation made for the first reply of a turn has failed
\* after its retries, that round does not end in the error branch, the
\* follow-up model request is issued (or is the next step), and the error
\* text is in the transcript as the tool result, for the model to see.
C18_FailedToolDoesNotAbort ==
    \A r \in active :
        ToolFailed(r)
            => /\ ~(errored[r] /\ Len(hist[r]) = 1)
               /\ pc[r] = "stream2" \/ (Len(hist[r]) >= 2 /\ hist[r][2].phase = "followup")
               /\ \E i \in 1..Len(messages) :
                      \E j \in 1..Len(messages[i].content) :
                          messages[i].content[j] = "ErrorExecuting"

\* the text holds the continue marker
HasContinue(text) == \E i \in 1..Len(text) : text[i] = "NEXT"

\* the reply e is one after which the loop breaks: a reply of the inspection
\* step that is no tool call and holds the completion marker or lacks the
\* continue marker, or follow-up text (all of the turn, joined) that holds
\* the completion marker
Stops(e) ==
    IF e.phase = "initial"
    THEN ~IsToolCallPayload(e.text) /\ (HasMarker(e.text) \/ ~HasContinue(e.text))
    ELSE HasMarker(e.joined)

\* C19 as claimed: after a reply that holds the completion marker or is no
\* tool call, no further model request is made in the turn.
C19_StopsAfterMarkerOrText ==
    \A r \in active : \A k \in 1..Len(hist[r]) :
        (Handled(r, k)
            /\ (HasMarker(hist[r][k].text) \/ ~IsToolCallPayload(hist[r][k].text)))
        => k = Len(hist[r]) /\ pc[r] \in {"done", "idle"}

\* C19 amended: leaving aside a turn ended by the error branch, the loop
\* breaks after a reply exactly when Stops holds of it; after any other reply
\* (a tool call, a reply of the inspection step with the continue marker and
\* without the completion marker, follow-up text without the completion
\* marker) another model request is made.
C19_StopsExactlyWhen ==
    \A r \in active : \A k \in 1..Len(hist[r]) :
        (Handled(r, k) /\ ~(k = Len(hist[r]) /\ errored[r]))
        => IF Stops(hist[r][k])
           THEN k = Len(hist[r]) /\ pc[r] \in {"done", "idle"}
           ELSE k < Len(hist[r]) \/ pc[r] \in {"stream1", "stream2"}

\* C19 witness: a follow-up text without the completion marker was followed
\* by another model request, and the reply to that one ended the turn
C19_Witness ==
    \E r \in active :
        /\ Len(hist[r]) = 3
        /\ hist[r][2].phase = "followup"
        /\ ~HasMarker(hist[r][2].joined)
        /\ hist[r][3].phase = "initial"
        /\ Stops(hist[r][3])
        /\ pc[r] = "done"
        /\ ~errored[r]

\* C20: a reply that reaches the marker inspection (it is no tool call and
\* process_llm_response gave it back unchanged) and lacks the completion
\* marker is appended as an assistant message; without the continue marker
\* the turn ends right after that, with the continue marker the next thing
\* is another model request, sent with the transcript that ends with it.
C20_ContinueMarkerDecides ==
    \A r \in active : \A k \in 1..Len(hist[r]) :
        LET e == hist[r][k]
            msg == Message("assistant", e.text)
        IN  (e.phase = "initial" /\ ~IsToolCallPayload(e.text) /\ ~HasMarker(e.text)
                /\ Handled(r, k) /\ ~(k = Len(hist[r]) /\ errored[r]))
            => /\ Len(messages) > Len(e.sent)
               /\ messages[Len(e.sent) + 1] = msg
               /\ IF HasContinue(e.text)
                  THEN \/ k = Len(hist[r]) /\ pc[r] = "stream1" /\ Last(messages) = msg
                       \/ /\ k < Len(hist[r])
                          /\ hist[r][k + 1].phase = "initial"
                          /\ hist[r][k + 1].sent = Append(e.sent, msg)
                  ELSE k = Len(hist[r]) /\ pc[r] \in {"done", "idle"} /\ Last(messages) = msg

\* C20 witness: a reply with the continue marker was followed by another
\* model request, and a reply without it has ended the turn
C20_Witness ==
    \E r \in active :
        /\ Len(hist[r]) = 2
        /\ hist[r][1].text = <<"w", "NEXT">>
        /\ hist[r][2].phase = "initial"
        /\ hist[r][2].text = <<"w">>
        /\ pc[r] = "done"

------------------------------------------------------------------------------
(* Claims about the transcript and the ownership of connections *)

\* s is a prefix of t
IsPrefix(s, t) == Len(s) <= Len(t) /\ SubSeq(t, 1, Len(s)) = s

\* C21: every step leaves the transcript as it was or extends it at its end,
\* and the first message stays the system message built by initialize; so
\* every later transcript has every earlier one as a prefix.
C21_TranscriptAppendOnly ==
    [][ /\ IsPrefix(messages, messages')
        /\ messages'[1] = Message("system", SystemMessage) ]_vars

\* C21 witness: a turn that ended in the error branch (nothing appended after
\* its user message) has been followed by the user message of the next turn
C21_Witness ==
    /\ turns = 2
    /\ Len(messages) >= 3
    /\ messages[1] = Message("system", SystemMessage)
    /\ messages[2].role = "user"
    /\ messages[3].role = "user"

\* C22: no connection object is in the `servers` list of two different
\* registered ChatSession objects.
C22_ConnectionsOwnedExclusively ==
    \A s \in SessionIds : \A u \in SessionIds :
        (chat_sessions[s] # None /\ chat_sessions[u] # None
            /\ chat_sessions[s] # chat_sessions[u])
        => osrv[chat_sessions[s]] \cap osrv[chat_sessions[u]] = {}

------------------------------------------------------------------------------
(* Claims about connect, the waits and the errors of execute_tool *)

\* the step is an initialize() call on a connection of this kind that raises
FailedConnect(kind) ==
    /\ srv.kind = kind
    /\ CanInitialize(srv)
    /\ \E o \in InitOutcomes, r \in BOOLEAN :
           LET res == initialize(srv, o, r, {"search"})
           IN  res.raised /\ srv' = res.s

\* the contexts the connection holds open after the step and did not have
\* before it
AcquiredAndOpen == {c \in Ctxs : srv.ctx[c].st = "unused" /\ srv'.ctx[c].st = "open"}

\* C23: an SSEServer.initialize() that fails has released every resource it
\* acquired (it makes at most three connect attempts before it fails).
C23_SSEConnectReleasesOnFailure ==
    [][ FailedConnect("sse") => AcquiredAndOpen = {} ]_vars

\* the connect sequences the step started: one transport context each
AttemptsMade == Cardinality({c \in Ctxs : srv.ctx[c].st = "unused" /\ srv'.ctx[c].role = "transport"})

\* C24: a Server.initialize() that fails made exactly one attempt, has released
\* every resource it acquired, and leaves the connection not Ready.
C24_StdioConnectFailsClean ==
    [][ FailedConnect("stdio")
            => /\ AttemptsMade = 1
               /\ AcquiredAndOpen = {}
               /\ srv'.session = None ]_vars

\* C25: the waits of one execute_tool call: Server sleeps the constant delay
\* after each failure but the last; SSEServer sleeps delay * 2^(k-1) after its
\* k-th failure, so each wait is longer than the one before; the number of
\* waits is the number of failures so far, and the final failed attempt (the
\* `retries`-th) is followed by no wait.
C25_WaitsBetweenAttempts ==
    /\ srv.kind = "stdio" => \A i \in DOMAIN waits : waits[i] = StdioDelay
    /\ srv.kind = "sse"
           => /\ waits # <<>> => waits[1] = SSEDelay
              /\ \A i \in 1..(Len(waits) - 1) : waits[i + 1] = 2 * waits[i]
              /\ \A i \in DOMAIN waits : \A j \in DOMAIN waits :
                     i < j => waits[i] < waits[j]
    /\ Len(waits) = (IF attempt < Retries(srv.kind) THEN attempt
                     ELSE Retries(srv.kind) - 1)
    /\ callPc = "sleep" => attempt < Retries(srv.kind)

\* C25 witness: an SSEServer call failed three times and slept 2 then 4
C25_Witness ==
    /\ srv.kind = "sse"
    /\ callPc = "raised"
    /\ attempt = SSERetries
    /\ waits = <<SSEDelay, 2 * SSEDelay>>

\* C26: an execute_tool call whose attempts all failed ends by raising, never
\* by returning, and the error it raises is the error of its last attempt
\* (Server re-raises it, SSEServer names it in its RuntimeError).
C26_LastErrorCarried ==
    /\ (callPc = "raised" /\ callLog # <<>>)
           => /\ last_error = callLog[Len(callLog)]
              /\ AttemptFailed(srv.kind, callLog[Len(callLog)])
    /\ (Len(callLog) = Retries(srv.kind) /\ AllFailedBefore(callLog, Len(callLog)))
           => callPc \in {"loop", "raised"}

\* C26 witness: three attempts failed with three different errors
C26_Witness ==
    /\ srv.kind = "sse"
    /\ callPc = "raised"
    /\ callLog = <<"conn", "null", "other">>
    /\ last_error = "other"

\* C27: in SSEServer.execute_tool an attempt whose result is None is a failed
\* attempt: it is counted in `attempt`, the call goes on to the next attempt
\* while attempts remain, and the call never returns on a None result.
C27_NullResultIsFailure ==
    srv.kind = "sse"
        => /\ attempt = Cardinality({i \in DOMAIN callLog : callLog[i] # "ok"})
           /\ callPc = "returned" => callLog[Len(callLog)] = "ok"
           /\ (callLog # <<>> /\ callLog[Len(callLog)] = "null")
                  => /\ callPc \in {"sleep", "loop", "raised"}
                     /\ callPc = "raised" => Len(callLog) = SSERetries
                     /\ Len(callLog) < SSERetries => callPc \in {"sleep", "loop"}

\* C27 witness: a None result, then a second attempt that returns a result
C27_Witness ==
    /\ srv.kind = "sse"
    /\ callPc = "returned"
    /\ callLog = <<"null", "ok">>
    /\ attempt = 1

\* a connection object on which initialize() was never called
FreshConnection == srv \in {NewServer("stdio"), NewServer("sse")}

\* C28: list_tools raises, and returns no tools, on a connection that has
\* never connected: on a new object, and on one whose only initialize() call
\* failed.
C28_ListToolsNeedsConnection ==
    [][ /\ FreshConnection
            => /\ list_tools(srv, {"search"}).raised
               /\ list_tools(srv, {"search"}).tools = {}
        /\ (FreshConnection /\ (FailedConnect("stdio") \/ FailedConnect("sse")))
            => /\ list_tools(srv', {"search"}).raised
               /\ list_tools(srv', {"search"}).tools = {} ]_vars

------------------------------------------------------------------------------
(* Claims about the model stream generator, checked under SpecStream *)

Diagnostics == {i \in DOMAIN yielded : yielded[i].kind = "diagnostic"}

RECURSIVE ContentDeltas(_, _)
\* the content deltas of the frames from line i on, up to the first [DONE]
ContentDeltas(ls, i) ==
    IF i > Len(ls) \/ ls[i] = "done" THEN <<>>
    ELSE IF ls[i] \in {"delta_a", "delta_b"}
    THEN <<[kind |-> "content", text |-> IF ls[i] = "delta_a" THEN "a" ELSE "b"]>>
             \o ContentDeltas(ls, i + 1)
    ELSE ContentDeltas(ls, i + 1)

\* C30: when the HTTP exchange itself does not fail, the fragments yielded by
\* a finished get_stream_response call are, in order, the content deltas of
\* the data frames before the first [DONE] frame, whatever the other lines
\* are.
C30_YieldsExactlyContentDeltas ==
    (spc = "ended" /\ stream_error \notin {"ConnectError", "HTTPStatusError",
                                           "ReadError", "CloseError"})
        => yielded = ContentDeltas(stream_lines, 1)

------------------------------------------------------------------------------
(* Claims about the notice, the follow-up messages and the fragments *)

\* the "No server found with tool" notice is among the fragments of r's turn
NoticeGiven(r) == \E k \in 1..Len(out[r]) : out[r][k][1] = "NoServer"

\* C33: for the tool call that is the first reply of a turn, the "No server
\* found" notice is yielded if and only if no server of the session lists the
\* requested tool; it is not yielded when a server lists the tool and its
\* invocation fails.
C33_NoticeIffNoServerListsTool ==
    \A r \in active :
        (Len(hist[r]) = 1 /\ Handled(r, 1) /\ IsToolCallPayload(hist[r][1].text)
            /\ ~errored[r])
        => (NoticeGiven(r) <=> Listing(hist[r][1].text) = {})

\* C34: the assistant message appended for a follow-up reply has as content
\* the text of that one follow-up reply, with the marker removed when it holds
\* it; so no text of an earlier follow-up reply of the turn is in it.
C34_FollowUpMessageIsItsReply ==
    \A r \in active :
        (hist[r] # <<>> /\ Last(hist[r]).phase = "followup" /\ pc[r] \in {"stream1", "done"})
        => /\ Last(messages).role = "assistant"
           /\ Last(messages).content
                  = (IF HasMarker(Last(hist[r]).text)
                     THEN Strip(Replace(Last(hist[r]).text, MARKER))
                     ELSE Last(hist[r]).text)

\* C39: a follow-up reply is not inspected: no server is invoked for it, even
\* when it is a well-formed payload for a tool a server lists; it is appended
\* as an assistant message (the follow-up text, or that text cleaned of the
\* marker), and the request after it, if any, is one of the inspection step.
C39_FollowUpNeverInvokes ==
    \A r \in active : \A k \in 1..Len(hist[r]) :
        LET e == hist[r][k]
        IN  e.phase = "followup"
            => /\ InvokedFor(r, k) = <<>>
               /\ k = Len(hist[r])
                      => /\ Last(messages).role = "assistant"
                         /\ Last(messages).content
                                \in {e.joined, Strip(Replace(e.joined, MARKER))}
               /\ k < Len(hist[r]) => hist[r][k + 1].phase = "initial"

\* C39 witness: a follow-up reply that is a payload for the listed tool
\* `search` became an assistant message and nothing was invoked for it
C39_Witness ==
    \E r \in active :
        /\ hist[r] # <<>>
        /\ Last(hist[r]).phase = "followup"
        /\ Last(hist[r]).text = Call("search")
        /\ \E i \in ServerIds : "search" \in toolsOf[i]
        /\ InvokedFor(r, Len(hist[r])) = <<>>
        /\ Last(messages) = Message("assistant", Call("search"))

\* the step is the inspection of r's reply in which execute_tool behaves as oc
\* says and exactly one server is invoked
InspectedWith(r, oc) ==
    /\ pc[r] = "inspect"
    /\ \A i \in ServerIds : oc[i] \in Outcomes(i, llm_response[r])
    /\ LET p == process_llm_response(llm_response[r], oc, ready)
       IN  /\ ~p.raised
           /\ Len(p.invoked) = 1
           /\ out'[r] = out[r] \o p.frags
           /\ invoked'[r] = invoked[r] \o p.invoked
           /\ ready' = p.ready

\* the fragments the step added to r's output
Added(r) == SubSeq(out'[r], Len(out[r]) + 1, Len(out'[r]))

\* C36: when the one execute_tool call of an inspection returns a result, a
\* "Tool execution result" fragment is yielded, and a "Progress" fragment is
\* yielded exactly when the result is a dict with a progress value, whatever
\* the progress and total values are (total 0 and total absent included).
C36_SuccessYieldsResult ==
    [][ \A r \in active :
          \A oc \in [ServerIds -> UNION {ExecOutcomes(i) : i \in ServerIds}] :
            LET i == process_llm_response(llm_response[r], oc, ready).invoked[1]
            IN  (InspectedWith(r, oc) /\ oc[i].err = "")
                => /\ \E k \in 1..Len(Added(r)) : Added(r)[k][1] = "Result"
                   /\ (\E k \in 1..Len(Added(r)) : Added(r)[k][1] = "Progress")
                          <=> (oc[i].dict /\ oc[i].progress >= 0) ]_vars

------------------------------------------------------------------------------
(* Claims about the construction of sessions *)

\* the connections of the ChatSession objects that are registered
InUse == UNION {osrv[chat_sessions[s]] : s \in {u \in SessionIds : chat_sessions[u] # None}}

\* C37: while get_or_create_chat_session constructs the ChatSession of a new
\* session id, every connection of an already registered session keeps its
\* session handle, and that session stays open, whether the construction
\* succeeds or fails.
C37_ConstructionLeavesOthersAlone ==
    [][ \A i \in InUse :
            /\ global_servers'[i].session = global_servers[i].session
            /\ global_servers'[i].session # None
            /\ global_servers'[i].ctx[global_servers'[i].session].st = "open" ]_vars

\* the step is the iteration of ChatSession.initialize in which
\* server.initialize() raises for request q
FailedConstruction(q) ==
    /\ gpc[q] = "init"
    /\ gpc'[q] = "raised"
    /\ gconn'[q] = gconn[q] + 1

\* cleanup() has run on the connection whose initialize() just failed: the
\* exit stack of a Server is unwound and nothing it entered is open; the
\* session context the SSEServer entered is closed
FailedOneReleased(s, t) ==
    IF s.kind = "stdio"
    THEN /\ t.exit_stack = <<>>
         /\ \A c \in DOMAIN s.ctx : s.ctx[c].st = "unused" => t.ctx[c].st # "open"
    ELSE \E c \in DOMAIN s.ctx :
             /\ s.ctx[c].st = "unused"
             /\ t.ctx[c].role = "session"
             /\ t.ctx[c].st = "closed"

\* C38: when a server.initialize() fails while get_or_create_chat_session
\* constructs a ChatSession, cleanup() is run on every server of that
\* ChatSession, the call raises, and nothing is registered for the session id;
\* a call for an id that is not registered constructs a new ChatSession.
C38_FailedConstructionRegistersNothing ==
    [][ \A q \in active :
          /\ FailedConstruction(q)
                => /\ \A i \in osrv[gobj[q]] \ {gidx[q]} :
                          ReleaseAttempted(global_servers[i], global_servers'[i])
                   /\ FailedOneReleased(global_servers[gidx[q]], global_servers'[gidx[q]])
                   /\ chat_sessions' = chat_sessions
                   /\ inserts' = inserts
                   /\ chat_sessions'[gsid[q]] = None
                   /\ gres'[q] = None
          /\ (gpc[q] = "idle" /\ gpc'[q] # "idle" /\ chat_sessions[gsid'[q]] = None)
                => /\ gpc'[q] = "init"
                   /\ gobj'[q] = objects + 1
                   /\ objects' = objects + 1 ]_vars

\* C38 witness: two constructions were started, nothing was ever registered,
\* and the second one has failed in a server.initialize()
C38_Witness ==
    \E q \in active :
        /\ gpc[q] = "raised"
        /\ gconn[q] >= 1
        /\ objects = 2
        /\ \A s \in SessionIds : inserts[s] = 0 /\ chat_sessions[s] = None

------------------------------------------------------------------------------
(* Claims about release and the heartbeat *)

\* C35: after a cleanup() call has ended, whether or not a close raised in
\* it, the connection has no session and list_tools raises.
C35_ReleasedMeansDisconnected ==
    [][ Cleanup => /\ srv'.session = None
                   /\ list_tools(srv', {"search"}).raised ]_vars

------------------------------------------------------------------------------
(* Claims about the frames of a chat request *)

\* the positions of r's frames that hold the frame f
FramesEqual(r, f) == {k \in 1..Len(frames[r]) : frames[r][k] = f}

\* r's turn has ended and its stream is complete
TurnOver(r) == pc[r] = "idle" /\ frames[r] # <<>>

\* C32: the frames of a chat request end with exactly one [DONE] frame, the
\* last one, and no error leaves the turn: when something raised inside it
\* (a server that is not ready when its tools are listed, a reply that is a
\* JSON scalar) the frame before [DONE] is the one "Error" diagnostic; while
\* the turn runs no [DONE] frame has been sent.
C32_StreamEndsWithDone ==
    \A r \in active :
        /\ TurnOver(r)
              => /\ FramesEqual(r, <<"data", "[DONE]">>) = {Len(frames[r])}
                 /\ errored[r]
                       => /\ Len(frames[r]) >= 2
                          /\ FramesEqual(r, <<"data", "Error">>) = {Len(frames[r]) - 1}
                 /\ ~errored[r] => FramesEqual(r, <<"data", "Error">>) = {}
        /\ ~TurnOver(r) => FramesEqual(r, <<"data", "[DONE]">>) = {}
        /\ (errored[r] /\ pc[r] = "done")
              => frames[r][Len(frames[r])] = <<"data", "Error">>

\* C32 witness: a turn in which listing the tools of a server that is not
\* ready raised has ended with the diagnostic and [DONE]
C32_Witness ==
    \E r \in active :
        /\ TurnOver(r)
        /\ errored[r]
        /\ \E i \in ServerIds : ~ready[i]
        /\ Len(frames[r]) >= 3
        /\ frames[r][Len(frames[r]) - 1] = <<"data", "Error">>
        /\ frames[r][Len(frames[r])] = <<"data", "[DONE]">>

------------------------------------------------------------------------------
(* Claims about the heartbeat loop                                          *)

\* C31: the heartbeat loop answers every failed ping with one call of
\* initialize, and neither a failed ping nor a failed initialize ends the
\* loop or leaves it as an exception: the loop is always at its ping, in its
\* sleep or in its reconnect, and the failed pings are the reconnects made
\* plus the one about to be made.
C31_HeartbeatSurvivesFailures ==
    /\ hpc \in {"top", "sleep", "reconnect"}
    /\ pingFailures = reconnects + (IF hpc = "reconnect" THEN 1 ELSE 0)

\* a ping failed, the reconnect failed too and left no session, and the loop
\* went on to its next iteration
C31_Witness ==
    /\ pingFailures >= 1
    /\ reconnects = pingFailures
    /\ ~hb.session
    /\ hpc = "sleep"
    /\ beats >= 2

------------------------------------------------------------------------------
(* Claims about the standalone backend                                      *)

\* C40: a connect request for a server id that has a registered session
\* removes the old session and goes on to establish the new one: the entry
\* does not make the request fail.
C40_ReconnectReplacesEntry ==
    [][\A id \in BackIds :
          (BackConnect(id, "stdio") /\ mcp_sessions[id] # None)
              => /\ bpc' = "connecting"
                 /\ mcp_sessions'[id] = None]_vars

====
